---- MODULE Spec2Model ----
(***************************************************************************)
(* Model of the structure detectors (swing / fair-value-gap / order block), *)
(* the LevelManager and the per-bar step of the Smart Money Concepts        *)
(* strategy (backend/app/backtesting/strategies/smart_money_simple_test/).  *)
(*                                                                          *)
(* Python lists that are indexed by bar number (data.High, swing_highs,...) *)
(* are functions over 0..n-1; Python lists that are appended to (fvgs,      *)
(* order_blocks, levels) are sequences.  Prices are positive integers.      *)
(***************************************************************************)
EXTENDS Integers, Sequences, FiniteSets, TLC

\* ------------------------------------------------------------------ bounds
\* Number of bars of the series fed to one structure-only run (the first
\* LeadIn of them are fixed quiet candles).
NumBars == 9
\* Longest series fed to the detectors on their own.
DetectLen == 6

\* ------------------------------------------------------------ primitives
\* np.nan in the swing arrays (np.full(len, np.nan)); prices are > 0.
NaN == -1
\* Python None in the time fields of a level / fvg / order block.
None == -1

\* data.index[i]: the timestamp of bar i (strictly increasing, not the index).
DataIndex(i) == 10 * (i + 1)

Max(S) == CHOOSE m \in S : \A x \in S : x <= m
Min(S) == CHOOSE m \in S : \A x \in S : m <= x
Min2(a, b) == IF a <= b THEN a ELSE b
Max2(a, b) == IF a >= b THEN a ELSE b

\* ----------------------------------------------------------------- inputs
\* Candle shapes of the inputs: two wick candles and two full-bodied ones.
WickUp   == [Open |-> 6, High |-> 8,  Low |-> 6, Close |-> 6]
WickDown == [Open |-> 6, High |-> 6,  Low |-> 4, Close |-> 6]
BodyUp   == [Open |-> 8, High |-> 10, Low |-> 8, Close |-> 10]
BodyDown == [Open |-> 4, High |-> 4,  Low |-> 2, Close |-> 2]
Candles  == {WickUp, WickDown, BodyUp, BodyDown}
\* An outside bar (higher high and lower low than the wick candles), for the
\* inputs of the detectors on their own.
Outside  == [Open |-> 6, High |-> 10, Low |-> 2, Close |-> 6]
DetectCandles == Candles \cup {Outside}

\* The first bars of a run's series are this many WickDown candles.
LeadIn == 2

HighOf(data, n) == [i \in 0..n-1 |-> data[i].High]
LowOf(data, n)  == [i \in 0..n-1 |-> data[i].Low]

\* ---------------------------------------------------------- SwingDetector
\* A variant that accepts a swing high only when it exceeds its left
\* neighbour by the fraction min_swing_size of its own price.
is_significant_high_enforced(min_swing_size, price, series, index) ==
    (price - series[index - 1]) * min_swing_size.den >= min_swing_size.num * price

\* _is_significant_high / _is_significant_low: self.min_swing_size (a fraction
\* [num, den]) is at hand and is not used.
is_significant_high(min_swing_size, price, series, index) == TRUE
is_significant_low(min_swing_size, price, series, index) == TRUE

\* window.max() / window.min() of series[a:b+1]
window_max(series, a, b) == Max({series[k] : k \in a..b})
window_min(series, a, b) == Min({series[k] : k \in a..b})

\* (mutant) the right-hand neighbour is compared with >= instead of >
is_swing_high_weak_neighbour(high_series, n, swing_length, min_swing_size, i) ==
    /\ i >= swing_length
    /\ i < n - swing_length
    /\ high_series[i] = window_max(high_series, i - swing_length, i + swing_length)
    /\ high_series[i] > high_series[i-1]
    /\ high_series[i] >= high_series[i+1]

is_swing_high(high_series, n, swing_length, min_swing_size, i) ==
    /\ i >= swing_length
    /\ i < n - swing_length
    /\ high_series[i] = window_max(high_series, i - swing_length, i + swing_length)
    /\ high_series[i] > high_series[i-1]
    /\ high_series[i] > high_series[i+1]
    /\ is_significant_high(min_swing_size, high_series[i], high_series, i)

\* A variant that compares the right-hand neighbour with <= instead of <.
is_swing_low_weak_neighbour(low_series, n, swing_length, min_swing_size, i) ==
    /\ i >= swing_length
    /\ i < n - swing_length
    /\ low_series[i] = window_min(low_series, i - swing_length, i + swing_length)
    /\ low_series[i] < low_series[i-1]
    /\ low_series[i] <= low_series[i+1]

is_swing_low(low_series, n, swing_length, min_swing_size, i) ==
    /\ i >= swing_length
    /\ i < n - swing_length
    /\ low_series[i] = window_min(low_series, i - swing_length, i + swing_length)
    /\ low_series[i] < low_series[i-1]
    /\ low_series[i] < low_series[i+1]
    /\ is_significant_low(min_swing_size, low_series[i], low_series, i)

calculate_swing_highs(high_series, n, swing_length, min_swing_size) ==
    [i \in 0..n-1 |->
        IF is_swing_high(high_series, n, swing_length, min_swing_size, i) THEN high_series[i] ELSE NaN]

calculate_swing_lows(low_series, n, swing_length, min_swing_size) ==
    [i \in 0..n-1 |->
        IF is_swing_low(low_series, n, swing_length, min_swing_size, i) THEN low_series[i] ELSE NaN]

\* ------------------------------------------------------------ FVGDetector
\* min_size is a fraction, kept exact as [num, den] (den > 0).
\* gap / base >= num / den  with base > 0
\* (mutant) a gap of exactly min_size is rejected
gap_at_least_strict(gap, base, min_size) == gap * min_size.den > min_size.num * base

gap_at_least(gap, base, min_size) == gap * min_size.den >= min_size.num * base

new_fvg(i, type, top, bottom, gap, base) ==
    [index |-> i, type |-> type, top |-> top, bottom |-> bottom,
     size |-> [num |-> gap, den |-> base],
     filled |-> FALSE, fill_time |-> None, added_to_levels |-> FALSE]

\* Body of the loop of calculate_fvgs for one index i >= 2: the fvgs appended.
fvg_at(data, i, min_size) ==
    LET candle_1_high == data[i-2].High
        candle_1_low  == data[i-2].Low
        candle_3_high == data[i].High
        candle_3_low  == data[i].Low
    IN  IF candle_1_high < candle_3_low
        THEN IF gap_at_least(candle_3_low - candle_1_high, candle_1_high, min_size)
             THEN << new_fvg(i, "bullish_fvg", candle_3_low, candle_1_high,
                             candle_3_low - candle_1_high, candle_1_high) >>
             ELSE << >>
        ELSE IF candle_1_low > candle_3_high
        THEN IF gap_at_least(candle_1_low - candle_3_high, candle_3_high, min_size)
             THEN << new_fvg(i, "bearish_fvg", candle_1_low, candle_3_high,
                             candle_1_low - candle_3_high, candle_3_high) >>
             ELSE << >>
        ELSE << >>

RECURSIVE fvg_scan(_, _, _, _)
fvg_scan(data, n, i, min_size) ==
    IF i >= n THEN << >>
    ELSE fvg_at(data, i, min_size) \o fvg_scan(data, n, i + 1, min_size)

calculate_fvgs(data, n, min_size) == fvg_scan(data, n, 2, min_size)

\* check_fvg_fill(fvg, current_high, current_low)
check_fvg_fill(fvg, current_high, current_low) ==
    \/ fvg.filled
    \/ fvg.type = "bullish_fvg" /\ current_low <= fvg.bottom
    \/ fvg.type = "bearish_fvg" /\ current_high >= fvg.top

\* ----------------------------------------------------- OrderBlockDetector
\* swing_hl: 1 at a swing high, -1 at a bar that is a swing low and no swing
\* high (the elif), 0 elsewhere.
swing_hl(swing_highs, swing_lows, i) ==
    IF swing_highs[i] # NaN THEN 1
    ELSE IF swing_lows[i] # NaN THEN -1
    ELSE 0

swing_high_indices(swing_highs, swing_lows, n) ==
    {i \in 0..n-1 : swing_hl(swing_highs, swing_lows, i) = 1}
swing_low_indices(swing_highs, swing_lows, n) ==
    {i \in 0..n-1 : swing_hl(swing_highs, swing_lows, i) = -1}

\* (mutant) the oldest earlier pivot instead of the most recent one
first_pivot_before(indices, i) ==
    IF {k \in indices : k < i} = {} THEN -1 ELSE Min({k \in indices : k < i})

\* valid = indices[indices < i]; valid[-1] when valid is not empty, else -1.
last_pivot_before(indices, i) ==
    IF {k \in indices : k < i} = {} THEN -1 ELSE Max({k \in indices : k < i})

\* (mutant) "<=" in the scan: the last bar with the lowest low wins
find_bullish_ob_candle_last(data, swing_high_idx, break_idx) ==
    IF break_idx - swing_high_idx > 1
    THEN LET R == (swing_high_idx + 1)..(break_idx - 1)
         IN  CHOOSE j \in R : /\ \A k \in R : data[j].Low <= data[k].Low
                              /\ \A k \in R : k > j => data[k].Low > data[j].Low
    ELSE break_idx - 1

\* _find_bullish_ob_candle: the first bar with the lowest low in
\* swing_high_idx+1 .. break_idx-1, or break_idx-1 when that range is empty.
find_bullish_ob_candle(data, swing_high_idx, break_idx) ==
    IF break_idx - swing_high_idx > 1
    THEN LET R == (swing_high_idx + 1)..(break_idx - 1)
         IN  CHOOSE j \in R : /\ \A k \in R : data[j].Low <= data[k].Low
                              /\ \A k \in R : k < j => data[k].Low > data[j].Low
    ELSE break_idx - 1

\* _find_bearish_ob_candle: the running maximum starts at 0, so only a high
\* above 0 moves ob_idx off its default break_idx-1.
find_bearish_ob_candle(data, swing_low_idx, break_idx) ==
    LET R == (swing_low_idx + 1)..(break_idx - 1)
    IN  IF break_idx - swing_low_idx > 1 /\ \E k \in R : data[k].High > 0
        THEN CHOOSE j \in R : /\ \A k \in R : data[j].High >= data[k].High
                              /\ \A k \in R : k < j => data[k].High < data[j].High
        ELSE break_idx - 1

\* The ob_data dict.  pivot and break_idx are history fields (the pivot that
\* was crossed and the bar i of the loop that crossed it); the code keeps
\* neither.
new_ob(data, ob_idx, type, pivot, break_idx) ==
    [index |-> ob_idx, time |-> DataIndex(ob_idx), type |-> type,
     top |-> data[ob_idx].High, bottom |-> data[ob_idx].Low,
     mitigated |-> FALSE, mitigation_time |-> None, added_to_levels |-> FALSE,
     pivot |-> pivot, break_idx |-> break_idx]

\* (mutant) the crossed flag is not consulted
bullish_break_unflagged(data, crossed, last_swing_high_idx, i) ==
    /\ last_swing_high_idx # -1
    /\ data[i].Close > data[last_swing_high_idx].High

\* "If price breaks above swing high and hasn't been processed"
bullish_break(data, crossed, last_swing_high_idx, i) ==
    /\ last_swing_high_idx # -1
    /\ data[i].Close > data[last_swing_high_idx].High
    /\ last_swing_high_idx \notin crossed

\* "If price breaks below swing low and hasn't been processed"
bearish_break(data, crossed, last_swing_low_idx, i) ==
    /\ last_swing_low_idx # -1
    /\ data[i].Close < data[last_swing_low_idx].Low
    /\ last_swing_low_idx \notin crossed

\* The loop "for i in range(data_length)" of calculate_order_blocks, from
\* bar i on, with the crossed flags and the blocks emitted so far.
RECURSIVE ob_scan(_, _, _, _, _, _, _)
ob_scan(data, n, his, los, i, crossed, order_blocks) ==
    IF i >= n THEN order_blocks
    ELSE
    LET last_swing_high_idx == last_pivot_before(his, i)
        bull     == bullish_break(data, crossed, last_swing_high_idx, i)
        crossed1 == IF bull THEN crossed \cup {last_swing_high_idx} ELSE crossed
        obs1     == IF bull
                    THEN Append(order_blocks,
                           new_ob(data,
                                  find_bullish_ob_candle(data, last_swing_high_idx, i),
                                  "bullish_ob", last_swing_high_idx, i))
                    ELSE order_blocks
        last_swing_low_idx == last_pivot_before(los, i)
        bear     == bearish_break(data, crossed1, last_swing_low_idx, i)
        crossed2 == IF bear THEN crossed1 \cup {last_swing_low_idx} ELSE crossed1
        obs2     == IF bear
                    THEN Append(obs1,
                           new_ob(data,
                                  find_bearish_ob_candle(data, last_swing_low_idx, i),
                                  "bearish_ob", last_swing_low_idx, i))
                    ELSE obs1
    IN  ob_scan(data, n, his, los, i + 1, crossed2, obs2)

calculate_order_blocks(data, n, swing_highs, swing_lows) ==
    ob_scan(data, n,
            swing_high_indices(swing_highs, swing_lows, n),
            swing_low_indices(swing_highs, swing_lows, n),
            0, {}, << >>)

\* check_ob_mitigation(ob, high, low, open, close)
check_ob_mitigation(ob, use_close_mitigation, bar) ==
    \/ ob.mitigated
    \/ /\ ob.type = "bullish_ob"
       /\ (IF ~use_close_mitigation THEN bar.Low ELSE Min2(bar.Open, bar.Close)) < ob.bottom
    \/ /\ ob.type = "bearish_ob"
       /\ (IF ~use_close_mitigation THEN bar.High ELSE Max2(bar.Open, bar.Close)) > ob.top

\* ----------------------------------------------------------- LevelManager
\* One dict of LevelManager.levels.  Every level carries every key; a key the
\* Python dict of that type does not have holds None ("None" for
\* break_direction, FALSE for filled / mitigated, which are read only on the
\* types that have them).  description is a display string and is left out.
new_level(time, price, type, end_time, top, bottom, mitigated) ==
    [time |-> time, price |-> price, type |-> type, end_time |-> end_time,
     break_direction |-> "None", filled |-> FALSE, fill_time |-> None,
     mitigated |-> mitigated, top |-> top, bottom |-> bottom]

add_swing_high(lv, time, price) ==
    Append(lv, new_level(time, price, "swing_high", None, None, None, FALSE))

add_swing_low(lv, time, price) ==
    Append(lv, new_level(time, price, "swing_low", None, None, None, FALSE))

\* price is the mid-point (top + bottom) / 2; candle prices are even.
add_fvg(lv, time, fvg_data) ==
    Append(lv, new_level(time, (fvg_data.top + fvg_data.bottom) \div 2, fvg_data.type,
                         None, fvg_data.top, fvg_data.bottom, FALSE))

add_order_block(lv, ob_data) ==
    Append(lv, new_level(ob_data.time, (ob_data.top + ob_data.bottom) \div 2, ob_data.type,
                         IF ob_data.mitigated THEN ob_data.mitigation_time ELSE None,
                         ob_data.top, ob_data.bottom, ob_data.mitigated))

\* A variant that treats every level as still active.
level_is_active_always(level) == TRUE

\* level.get('end_time') is None: only active levels are checked.
level_is_active(level) == level.end_time = None

\* A variant in which a bar that only touches the price breaks the level.
swing_high_broken_on_touch(level, current_high) ==
    level.type = "swing_high" /\ current_high >= level.price

\* The break test of a swing high: the high was broken to the upside.
swing_high_broken(level, current_high) ==
    level.type = "swing_high" /\ current_high > level.price

\* The fill tests of check_level_breaks: the bar reaches the far edge.
fvg_level_filled(level, current_high, current_low) ==
    \/ level.type = "bullish_fvg" /\ current_low <= level.bottom
    \/ level.type = "bearish_fvg" /\ current_high >= level.top

\* Body of the loop of check_level_breaks for one level.
check_level(level, current_high, current_low, current_time) ==
    IF level_is_active(level)
    THEN IF swing_high_broken(level, current_high)
         THEN [level EXCEPT !.end_time = current_time, !.break_direction = "upward"]
         ELSE IF level.type = "swing_low" /\ current_low < level.price
         THEN [level EXCEPT !.end_time = current_time, !.break_direction = "downward"]
         ELSE IF level.type \in {"bullish_fvg", "bearish_fvg"} /\ level.filled = FALSE
         THEN IF fvg_level_filled(level, current_high, current_low)
              THEN [level EXCEPT !.end_time = current_time, !.filled = TRUE,
                                 !.fill_time = current_time]
              ELSE level
         ELSE level
    ELSE level

check_level_breaks(lv, current_high, current_low, current_time) ==
    [k \in 1..Len(lv) |-> check_level(lv[k], current_high, current_low, current_time)]

\* A variant that only leaves out the mitigated levels.
get_active_levels_unmitigated(lv) ==
    LET active(level) == ~level.mitigated IN SelectSeq(lv, active)

get_active_levels(lv) ==
    LET active(level) == level.end_time = None IN SelectSeq(lv, active)

get_all_levels(lv) == lv

\* ================================================================== state
VARIABLES
    data,          \* the bar series: 0..n-1 -> [Open, High, Low, Close]
    params,        \* the strategy parameters of the run
    pc,            \* "created" -> "running" -> "finished"
    current_idx,   \* len(self.data) - 1 of the next call of next()
    swing_highs,   \* self.swing_highs: 0..n-1 -> price or NaN
    swing_lows,    \* self.swing_lows
    fvgs,          \* self.fvgs: list of fvg dicts
    order_blocks,  \* self.order_blocks: list of ob dicts
    levels,        \* self.level_manager.levels
    added_at,      \* history: added_at[k] = the bar being processed when
                   \* levels[k] was appended
    recent,        \* trading run: the last bars of self.data (newest last)
    macd_rel,      \* trading run: sign of macd_line - signal_line at the
                   \* previous and the current bar
    rsi_pivots,    \* trading run: what bull_pivots / bear_pivots hold at the
                   \* current bar
    orders,        \* the broker's queue of entry / closing orders
    trades,        \* the broker's open trades (the position)
    build,         \* trading run: which behaviour of the backtesting library
                   \* the installation has (its version is not pinned)
    trade_log,     \* the rows the last broker step appended to the closed
                   \* trades (stats._trades); rows once appended never change
    runner,        \* run_flexible_backtest: where the call is and what it
                   \* has done so far
    data_dict,     \* the frame load_multi_timeframe_data returns (rows of
                   \* timestamp and bar, in order)
    prepared_data, \* the frame prepare_data returns
    pnl_list,      \* the PnL of the closed trades the result is computed from
    results,       \* the statistics of the results dict
    collected_levels, \* _collected_levels of the generated strategy class
    closed_trades, \* stats._trades whole, in the runs that are compared
    earlier_trades, \* the closed trades of the earlier runs of the same input
    cash_covers,   \* compared runs: the bars on which the cash covers an
                   \* entry (the same for the same cash, series and trades)
    registry,      \* the strategies package: what importing it gave
    bybit,         \* bybit_ws_manager, its coroutines and what they sent
    store          \* the undelivered drawings table and the messages emitted

vars == << data, params, pc, current_idx, swing_highs, swing_lows, fvgs,
           order_blocks, levels, added_at, recent, macd_rel, rsi_pivots,
           orders, trades, build, trade_log, runner, data_dict, prepared_data,
           pnl_list, results, collected_levels, closed_trades,
           earlier_trades, cash_covers, registry, bybit, store >>

runVars == << runner, data_dict, prepared_data, pnl_list, results >>
compareVars == << closed_trades, earlier_trades, cash_covers >>
serviceVars == << registry, bybit, store >>
tradeVars == << recent, macd_rel, rsi_pivots, orders, trades, build, trade_log >>
structVars == << data, swing_highs, swing_lows, fvgs, order_blocks, levels,
                 added_at >>

\* np.full(len(rsi_values), np.nan) at one bar, for both pivot arrays.
NoPivots == [bull |-> "none", bear |-> "none"]

\* No call of run_flexible_backtest is modelled.
NoFrames ==
    /\ data_dict = << >>
    /\ prepared_data = << >>
NoResults ==
    /\ pnl_list = << >>
    /\ results = << >>
\* No run is compared with another.
NoCompare ==
    /\ closed_trades = << >>
    /\ earlier_trades = << >>
    /\ cash_covers = << >>
\* The web service is not modelled: no import, no socket, no drawing.
NoService ==
    /\ registry = << >>
    /\ bybit = << >>
    /\ store = << >>
NoRun ==
    /\ runner = << >>
    /\ NoFrames
    /\ NoResults
    /\ collected_levels = << >>
    /\ NoService
    /\ NoCompare

\* A run that never trades: no order, no position.
NoTrading ==
    /\ recent = << >>
    /\ macd_rel = << 0, 0 >>
    /\ rsi_pivots = NoPivots
    /\ orders = << >>
    /\ trades = << >>
    /\ build = << >>
    /\ trade_log = << >>

DataLen(d) == Cardinality(DOMAIN d)

\* get_default_parameters, with the two values the inputs vary.
default_parameters(swing_length, ob_close_mitigation) ==
    [swing_length |-> swing_length, min_swing_size |-> [num |-> 1, den |-> 500],
     show_swing_highs |-> TRUE, show_swing_lows |-> TRUE,
     show_fvgs |-> TRUE, fvg_min_size |-> [num |-> 1, den |-> 1000],
     show_order_blocks |-> TRUE, ob_close_mitigation |-> ob_close_mitigation]

\* validate_parameters of SmartMoneySimpleTestStrategy
validate_parameters(parameters) == parameters.swing_length >= 2

\* Backtest.run calls next() first at bar 1 + (the longest run of leading NaN
\* of the arrays registered with self.I); an array that is all NaN counts 0.
first_valid(indicator, n) ==
    IF \A i \in 0..n-1 : indicator[i] = NaN THEN 0
    ELSE Min({i \in 0..n-1 : indicator[i] # NaN})

first_bar(n, sh, sl) == 1 + Max2(first_valid(sh, n), first_valid(sl, n))

\* ------------------------------------------------------------------ init()
StrategyInit ==
    /\ pc = "created"
    /\ LET n  == DataLen(data)
           sh == calculate_swing_highs(HighOf(data, n), n, params.swing_length,
                                       params.min_swing_size)
           sl == calculate_swing_lows(LowOf(data, n), n, params.swing_length,
                                      params.min_swing_size)
       IN  /\ swing_highs' = sh
           /\ swing_lows' = sl
           /\ fvgs' = IF params.show_fvgs
                      THEN calculate_fvgs(data, n, params.fvg_min_size) ELSE << >>
           /\ order_blocks' = IF params.show_order_blocks
                              THEN calculate_order_blocks(data, n, sh, sl) ELSE << >>
           /\ current_idx' = first_bar(n, sh, sl)
           /\ pc' = IF first_bar(n, sh, sl) < n THEN "running" ELSE "finished"
    /\ levels' = << >>
    /\ added_at' = << >>
    /\ UNCHANGED << data, params >>
    /\ UNCHANGED tradeVars
    /\ UNCHANGED << runVars, compareVars, collected_levels, serviceVars >>

\* ------------------------------------------------------------------ next()
\* "Check for new swing highs" / "Check for new swing lows"
with_new_swings(lv, i) ==
    LET lv1 == IF params.show_swing_highs /\ swing_highs[i] # NaN
               THEN add_swing_high(lv, DataIndex(i), swing_highs[i]) ELSE lv
    IN  IF params.show_swing_lows /\ swing_lows[i] # NaN
        THEN add_swing_low(lv1, DataIndex(i), swing_lows[i]) ELSE lv1

\* "Check for new FVGs": the fvgs of this bar not yet added, in list order;
\* the level starts at the first candle of the pattern.
fvg_due(fvg, i) == fvg.index = i /\ ~fvg.added_to_levels

\* A variant that starts the level at the bar being processed.
fvg_start_time_at_bar(fvg) == DataIndex(fvg.index)

\* start_candle_index = fvg['index'] - 2; start_time = self.data.index[...]
fvg_start_time(fvg) == DataIndex(fvg.index - 2)

RECURSIVE with_new_fvgs(_, _, _, _)
with_new_fvgs(lv, fs, k, i) ==
    IF k > Len(fs) THEN lv
    ELSE with_new_fvgs(IF params.show_fvgs /\ fvg_due(fs[k], i)
                       THEN add_fvg(lv, fvg_start_time(fs[k]), fs[k]) ELSE lv,
                       fs, k + 1, i)

\* "Check for new Order Blocks": the blocks whose index is this bar.
ob_due(ob, i) == ob.index = i /\ ~ob.added_to_levels

RECURSIVE with_new_obs(_, _, _, _)
with_new_obs(lv, obs, k, i) ==
    IF k > Len(obs) THEN lv
    ELSE with_new_obs(IF params.show_order_blocks /\ ob_due(obs[k], i)
                      THEN add_order_block(lv, obs[k]) ELSE lv,
                      obs, k + 1, i)

\* "Update FVG and OB mitigation status using components", on the dicts of
\* the detectors (after the marks added_to_levels of this bar).
fvg_after_bar(fvg, i) ==
    LET f1 == IF params.show_fvgs /\ fvg_due(fvg, i)
              THEN [fvg EXCEPT !.added_to_levels = TRUE] ELSE fvg
    IN  IF params.show_fvgs /\ ~f1.filled
           /\ check_fvg_fill(f1, data[i].High, data[i].Low)
        THEN [f1 EXCEPT !.filled = TRUE, !.fill_time = DataIndex(i)]
        ELSE f1

ob_after_bar(ob, i) ==
    LET o1 == IF params.show_order_blocks /\ ob_due(ob, i)
              THEN [ob EXCEPT !.added_to_levels = TRUE] ELSE ob
    IN  IF params.show_order_blocks /\ ~o1.mitigated
           /\ check_ob_mitigation(o1, params.ob_close_mitigation, data[i])
        THEN [o1 EXCEPT !.mitigated = TRUE, !.mitigation_time = DataIndex(i)]
        ELSE o1

\* The levels after next() on bar i: break check first, then the new levels.
levels_after_bar(lv, i) ==
    LET checked == check_level_breaks(lv, data[i].High, data[i].Low, DataIndex(i))
    IN  with_new_obs(with_new_fvgs(with_new_swings(checked, i), fvgs, 1, i),
                     order_blocks, 1, i)

\* _collected_levels holds the dicts of the level manager of this run (the
\* same objects, so a break shows in both) after the dicts that earlier runs
\* of the same class appended.
carried_levels(collected, lv) == SubSeq(collected, 1, Len(collected) - Len(lv))

\* A variant of next() that buys at each new swing low.
next_orders_buying(od, tr, i) ==
    IF params.show_swing_lows /\ swing_lows[i] # NaN
    THEN Append(od, [kind |-> "entry", is_long |-> TRUE, sl |-> 0, tp |-> 0])
    ELSE od

\* The orders next() leaves in the broker's queue: it calls neither
\* self.buy() nor self.sell() nor position.close(), so the queue is as it was.
next_orders(od, tr, i) == od

StrategyNext ==
    /\ pc = "running"
    /\ LET i  == current_idx
           lv == levels_after_bar(levels, i)
       IN  /\ levels' = lv
           /\ added_at' = added_at \o [k \in 1..(Len(lv) - Len(levels)) |-> i]
           /\ fvgs' = [k \in 1..Len(fvgs) |-> fvg_after_bar(fvgs[k], i)]
           /\ order_blocks' = [k \in 1..Len(order_blocks) |-> ob_after_bar(order_blocks[k], i)]
           /\ current_idx' = i + 1
           /\ collected_levels' = carried_levels(collected_levels, levels) \o lv
           /\ orders' = next_orders(orders, trades, i)
           /\ pc' = IF i + 1 < DataLen(data) THEN "running" ELSE "finished"
    /\ UNCHANGED << data, params, swing_highs, swing_lows >>
    /\ UNCHANGED << recent, macd_rel, rsi_pivots, trades, build, trade_log >>
    /\ UNCHANGED << runVars, compareVars, serviceVars >>

\* ------------------------------------------------------- the structure run
\* The series of the run: LeadIn quiet candles, then any candles.
RunSeries ==
    {d \in [0..NumBars-1 -> Candles] : \A i \in 0..LeadIn-1 : d[i] = WickDown}

Init ==
    /\ data \in RunSeries
    /\ params \in {default_parameters(2, m) : m \in BOOLEAN}
    /\ validate_parameters(params)
    /\ pc = "created"
    /\ current_idx = 0
    /\ swing_highs = << >>
    /\ swing_lows = << >>
    /\ fvgs = << >>
    /\ order_blocks = << >>
    /\ levels = << >>
    /\ added_at = << >>
    /\ NoTrading
    /\ NoRun

Next == StrategyInit \/ StrategyNext

Spec == Init /\ [][Next]_vars

\* ------------------------------------------------- the detectors on their own
\* The three detectors called directly (as test_components.py does), on every
\* series of at most DetectLen candles.
DetectSwings ==
    /\ pc = "detect"
    /\ LET n == DataLen(data)
       IN  /\ swing_highs' = calculate_swing_highs(HighOf(data, n), n, params.swing_length,
                                       params.min_swing_size)
           /\ swing_lows' = calculate_swing_lows(LowOf(data, n), n, params.swing_length,
                                      params.min_swing_size)
    /\ pc' = "swings"
    /\ UNCHANGED << data, params, current_idx, fvgs, order_blocks, levels, added_at >>
    /\ UNCHANGED tradeVars
    /\ UNCHANGED << runVars, compareVars, collected_levels, serviceVars >>

DetectFVGs ==
    /\ pc = "swings"
    /\ fvgs' = calculate_fvgs(data, DataLen(data), params.fvg_min_size)
    /\ pc' = "fvgs"
    /\ UNCHANGED << data, params, current_idx, swing_highs, swing_lows, order_blocks,
                    levels, added_at >>
    /\ UNCHANGED tradeVars
    /\ UNCHANGED << runVars, compareVars, collected_levels, serviceVars >>

DetectOrderBlocks ==
    /\ pc = "fvgs"
    /\ order_blocks' = calculate_order_blocks(data, DataLen(data), swing_highs, swing_lows)
    /\ pc' = "detected"
    /\ UNCHANGED << data, params, current_idx, swing_highs, swing_lows, fvgs,
                    levels, added_at >>
    /\ UNCHANGED tradeVars
    /\ UNCHANGED << runVars, compareVars, collected_levels, serviceVars >>

MinSizes == { [num |-> 1, den |-> 1000], [num |-> 1, den |-> 3] }

InitDetect ==
    /\ \E n \in 0..DetectLen : data \in [0..n-1 -> DetectCandles]
    /\ \E sl \in 1..2, ms \in MinSizes :
          params = [default_parameters(sl, FALSE) EXCEPT !.fvg_min_size = ms]
    /\ pc = "detect"
    /\ current_idx = 0
    /\ swing_highs = << >>
    /\ swing_lows = << >>
    /\ fvgs = << >>
    /\ order_blocks = << >>
    /\ levels = << >>
    /\ added_at = << >>
    /\ NoTrading
    /\ NoRun

NextDetect == DetectSwings \/ DetectFVGs \/ DetectOrderBlocks

SpecDetect == InitDetect /\ [][NextDetect]_vars

\* ============================================================ trading runs
\* Number of bars of the series fed to one trading run.
TradeBars == 17

\* RSI+MACD: next() returns at once while current_idx is below this.
MinBarsForSignals == 10

\* A candle that opens low and spans the whole price range.
GapBar == [Open |-> 4, High |-> 10, Low |-> 2, Close |-> 10]
\* The candles of a trading run.
TradeCandles == DetectCandles \cup {GapBar}

\* Sign of macd_line - signal_line on one bar.
Rels == {-1, 0, 1}

\* get_default_parameters of SimpleMACrossStrategy, with short periods and a
\* stop of 1/4 so that thresholds never coincide with a candle price.
ma_cross_parameters(fast_ma, slow_ma) ==
    [strategy |-> "ma_cross", fast_ma |-> fast_ma, slow_ma |-> slow_ma,
     risk_reward |-> 2, stop_loss_pct |-> [num |-> 1, den |-> 4]]

\* `param in parameters` for every param of required_params
has_required(parameters, required_params) ==
    \A param \in required_params : param \in DOMAIN parameters

\* A variant of validate_parameters that passes every mapping holding the
\* required keys.
ma_cross_validate_required_only(parameters) ==
    has_required(parameters, {"fast_ma", "slow_ma", "risk_reward", "stop_loss_pct"})

\* SimpleMACrossStrategy.validate_parameters
ma_cross_validate_parameters(parameters) ==
    /\ has_required(parameters, {"fast_ma", "slow_ma", "risk_reward", "stop_loss_pct"})
    /\ ~(parameters.fast_ma >= parameters.slow_ma)
    /\ ~(parameters.risk_reward <= 0)
    /\ ~(parameters.stop_loss_pct.num <= 0)

\* minimum <= value <= maximum for an integer property and for a number
\* property of the schema (numbers as num / den with den > 0).
in_integer_range(value, minimum, maximum) == minimum <= value /\ value <= maximum
in_number_range(value, minimum, maximum) ==
    /\ minimum.num * value.den <= value.num * minimum.den
    /\ value.num * maximum.den <= maximum.num * value.den
number(n) == [num |-> n, den |-> 1]

\* What SimpleMACrossStrategy.get_parameter_schema accepts, of the keys the
\* model's mappings hold.
ma_cross_schema_accepts(parameters) ==
    /\ has_required(parameters, {"fast_ma", "slow_ma", "risk_reward", "stop_loss_pct"})
    /\ in_integer_range(parameters.fast_ma, 1, 100)
    /\ in_integer_range(parameters.slow_ma, 2, 200)
    /\ in_number_range(number(parameters.risk_reward),
                       [num |-> 1, den |-> 10], number(10))
    /\ in_number_range(parameters.stop_loss_pct,
                       [num |-> 1, den |-> 1000], [num |-> 1, den |-> 10])

\* get_default_parameters of RSIMACDComboStrategy (stop of 1/4 as above).
rsi_macd_parameters ==
    [strategy |-> "rsi_macd", rsi_length |-> 14, macd_fast |-> 12,
     macd_slow |-> 26, macd_signal |-> 9,
     risk_reward |-> 2, stop_loss_pct |-> [num |-> 1, den |-> 4]]

\* RSIMACDComboStrategy.validate_parameters
rsi_macd_validate_parameters(parameters) ==
    /\ has_required(parameters, {"rsi_length", "macd_fast", "macd_slow", "macd_signal"})
    /\ ~(parameters.rsi_length < 2)
    /\ ~(parameters.macd_fast >= parameters.macd_slow)

\* What RSIMACDComboStrategy.get_parameter_schema accepts, of the keys the
\* model's mappings hold.
rsi_macd_schema_accepts(parameters) ==
    /\ has_required(parameters, {"rsi_length", "macd_fast", "macd_slow", "macd_signal"})
    /\ in_integer_range(parameters.rsi_length, 2, 50)
    /\ in_integer_range(parameters.macd_fast, 5, 20)
    /\ in_integer_range(parameters.macd_slow, 15, 50)
    /\ in_integer_range(parameters.macd_signal, 5, 20)
    /\ in_number_range(number(parameters.risk_reward),
                       [num |-> 1, den |-> 2], number(5))
    /\ in_number_range(parameters.stop_loss_pct,
                       [num |-> 1, den |-> 200], [num |-> 1, den |-> 10])

strategy_validate_parameters(parameters) ==
    IF parameters.strategy = "ma_cross" THEN ma_cross_validate_parameters(parameters)
    ELSE rsi_macd_validate_parameters(parameters)
schema_accepts(parameters) ==
    IF parameters.strategy = "ma_cross" THEN ma_cross_schema_accepts(parameters)
    ELSE rsi_macd_schema_accepts(parameters)

\* How many of the last bars the strategy reads.
window_size(parameters) ==
    IF parameters.strategy = "ma_cross" THEN parameters.slow_ma + 1 ELSE 2

last_bars(w, k) == IF Len(w) > k THEN SubSeq(w, Len(w) - k + 1, Len(w)) ELSE w

\* close_series.rolling(window).sum() at the bar `back` places from the end.
RECURSIVE rolling_sum(_, _, _)
rolling_sum(w, window, back) ==
    IF window = 0 THEN 0
    ELSE w[Len(w) - back].Close + rolling_sum(w, window - 1, back + 1)

\* rolling(window).mean() in units of 1 / (fast_ma * slow_ma).
rolling_mean(w, window, parameters, back) ==
    rolling_sum(w, window, back)
        * ((parameters.fast_ma * parameters.slow_ma) \div window)

\* A variant that tests only whether series1 is above series2 now.
crossover_above(series1_prev, series2_prev, series1_last, series2_last) ==
    series1_last > series2_last
\* backtesting.lib.crossover: series1[-2] < series2[-2] and
\* series1[-1] > series2[-1]
crossover(series1_prev, series2_prev, series1_last, series2_last) ==
    series1_prev < series2_prev /\ series1_last > series2_last

fast_over_slow(w, parameters) ==
    crossover(rolling_mean(w, parameters.fast_ma, parameters, 1),
              rolling_mean(w, parameters.slow_ma, parameters, 1),
              rolling_mean(w, parameters.fast_ma, parameters, 0),
              rolling_mean(w, parameters.slow_ma, parameters, 0))

slow_over_fast(w, parameters) ==
    crossover(rolling_mean(w, parameters.slow_ma, parameters, 1),
              rolling_mean(w, parameters.fast_ma, parameters, 1),
              rolling_mean(w, parameters.slow_ma, parameters, 0),
              rolling_mean(w, parameters.fast_ma, parameters, 0))

macd_cross_up(rel) == rel[2] > 0 /\ rel[1] <= 0
macd_cross_down(rel) == rel[2] < 0 /\ rel[1] >= 0

\* The width of the pivot window on each side, and the lookback of the
\* divergence search.
PivotSpan == 5
DivergenceLookback == 20

\* What a pivot array holds at bar i of n: nothing, a pivot, or a pivot that
\* diverges from the closest earlier pivot of the lookback (lower close and
\* higher RSI for a pivot low, the mirror for a pivot high).  Pivots exist
\* from bar PivotSpan to bar n - PivotSpan - 1; two pivots with different RSI
\* values are more than PivotSpan bars apart.
pivots_at(i, n) ==
    IF i < PivotSpan \/ i >= n - PivotSpan THEN {"none"}
    ELSE IF i - PivotSpan - 1 < PivotSpan THEN {"none", "pivot"}
    ELSE {"none", "pivot", "diverging"}

\* range(start, stop, -1)
range_desc(start, stop) == {k \in (stop + 1)..start : TRUE}

\* _check_bullish_divergence / _check_bearish_divergence: is_pivot says the
\* current bar is an RSI pivot, diverges that the first earlier pivot found
\* shows the divergence.
check_divergence(idx, is_pivot, diverges) ==
    IF idx < MinBarsForSignals THEN FALSE
    ELSE /\ is_pivot
         /\ \E k \in range_desc(idx - DivergenceLookback, Max2(0, idx - PivotSpan)) :
            diverges

\* stop_loss / take_profit of an entry, in units of 1 / stop_loss_pct.den.
bracket(is_long, entry_price, parameters) ==
    LET pct == parameters.stop_loss_pct
        rr == parameters.risk_reward
    IN  IF is_long
        THEN [sl |-> entry_price * (pct.den - pct.num),
              tp |-> entry_price * (pct.den + pct.num * rr)]
        ELSE [sl |-> entry_price * (pct.den + pct.num),
              tp |-> entry_price * (pct.den - pct.num * rr)]

\* A variant that takes the position for flat whatever it is.
flat_unchecked(tr) == TRUE

\* not self.position
flat(tr) == tr = << >>

\* Strategy.buy / Strategy.sell under exclusive_orders=True: every open trade
\* gets a closing order in front of the new entry order.
new_order(od, tr, is_long, b) ==
    LET is_close(o) == o.kind = "close"
    IN  SelectSeq(od, is_close)
        \o [k \in 1..Len(tr) |->
               [kind |-> "close", is_long |-> ~tr[k].is_long, sl |-> 0, tp |-> 0]]
        \o << [kind |-> "entry", is_long |-> is_long, sl |-> b.sl, tp |-> b.tp] >>

\* The behaviours of the backtesting library an installation can have:
\* SL / TP and closing orders fill at the bar's open or (with trade_on_close)
\* at the previous close; the trades frame has SL / TP columns or not; trades
\* still open after the last bar are closed into the frame or left out.
Builds ==
    {[contingent_on_open |-> FALSE, sl_tp_columns |-> FALSE, finalize_trades |-> TRUE],
     [contingent_on_open |-> TRUE, sl_tp_columns |-> TRUE, finalize_trades |-> FALSE]}

\* The stop-loss order of a trade triggers on candle c.
sl_hit(t, c, den) ==
    IF t.is_long THEN c.Low * den < t.sl ELSE c.High * den > t.sl

\* The take-profit order of a trade triggers on candle c.
tp_hit(t, c, den) ==
    IF t.is_long THEN c.High * den > t.tp ELSE c.Low * den < t.tp

\* The stop-loss or the take-profit order of a trade triggers on candle c.
sl_tp_hit(t, c, den) == sl_hit(t, c, den) \/ tp_hit(t, c, den)

\* Price at which a market order of the queue fills (units of 1 / den).
market_price(contingent, c, prev_close, den, bld) ==
    IF contingent /\ bld.contingent_on_open THEN c.Open * den ELSE prev_close * den

\* A row of the closed trades; cause records which order closed the trade.
closed_trade(t, exit_price, cause) ==
    [is_long |-> t.is_long, entry_price |-> t.entry_price, sl |-> t.sl,
     tp |-> t.tp, exit_price |-> exit_price, cause |-> cause]

\* A variant in which the take-profit order is processed before the stop.
contingent_exit_tp_first(t, c, prev_close, den, bld) ==
    IF tp_hit(t, c, den)
    THEN closed_trade(t, IF t.is_long THEN Max2(c.Open * den, t.tp)
                         ELSE Min2(c.Open * den, t.tp), "tp")
    ELSE LET price == market_price(TRUE, c, prev_close, den, bld)
         IN  closed_trade(t, IF t.is_long THEN Min2(price, t.sl)
                             ELSE Max2(price, t.sl), "sl")

\* The SL (stop) order of a trade is queued before its TP (limit) order: when
\* both trigger on one candle the stop closes the trade.  A stop fills at the
\* stop price or, past it, at the market price; a limit at the limit price or,
\* past it, at the open.
contingent_exit(t, c, prev_close, den, bld) ==
    IF sl_hit(t, c, den)
    THEN LET price == market_price(TRUE, c, prev_close, den, bld)
         IN  closed_trade(t, IF t.is_long THEN Min2(price, t.sl)
                             ELSE Max2(price, t.sl), "sl")
    ELSE closed_trade(t, IF t.is_long THEN Max2(c.Open * den, t.tp)
                         ELSE Min2(c.Open * den, t.tp), "tp")

\* The SL / TP orders of the open trades on candle c.
settle_contingent(st, c, prev_close, den, bld) ==
    LET open_after(t) == ~sl_tp_hit(t, c, den)
        closed_now(t) == sl_tp_hit(t, c, den)
        hit == SelectSeq(st.trades, closed_now)
    IN  [trades |-> SelectSeq(st.trades, open_after),
         log |-> st.log \o [k \in 1..Len(hit) |->
                               contingent_exit(hit[k], c, prev_close, den, bld)]]

\* _Broker._process_orders over the queued closing and entry orders:
\* trade_on_close=True fills an entry at the previous close, hedging=False
\* closes the opposite trades first, an order the margin cannot cover is
\* dropped.
RECURSIVE fill_orders(_, _, _, _, _, _, _)
fill_orders(od, st, c, prev_close, can_afford, den, bld) ==
    IF od = << >> THEN st
    ELSE LET o == Head(od)
             same_side(t) == t.is_long = o.is_long
             other_side(t) == t.is_long # o.is_long
             kept == SelectSeq(st.trades, same_side)
             reduced == SelectSeq(st.trades, other_side)
             at_close == market_price(TRUE, c, prev_close, den, bld)
             at_entry == market_price(FALSE, c, prev_close, den, bld)
         IN  IF o.kind = "close"
             THEN fill_orders(Tail(od),
                      IF st.trades = << >> THEN st
                      ELSE [trades |-> Tail(st.trades),
                            log |-> Append(st.log,
                                       closed_trade(Head(st.trades), at_close, "close"))],
                      c, prev_close, can_afford, den, bld)
             ELSE fill_orders(Tail(od),
                      [trades |-> IF can_afford
                                  THEN Append(kept, [is_long |-> o.is_long,
                                                     entry_price |-> prev_close,
                                                     sl |-> o.sl, tp |-> o.tp])
                                  ELSE kept,
                       log |-> st.log \o [k \in 1..Len(reduced) |->
                                  closed_trade(reduced[k], at_entry, "close")]],
                      c, prev_close, can_afford, den, bld)

\* _Broker.next on candle c: the SL / TP orders of the open trades, then the
\* queue, then the SL / TP orders of the trades just opened.
process_orders(od, st, c, prev_close, can_afford, den, bld) ==
    settle_contingent(
        fill_orders(od, settle_contingent(st, c, prev_close, den, bld),
                    c, prev_close, can_afford, den, bld),
        c, prev_close, den, bld)

\* The trade_info dict run_flexible_backtest builds from a row of the closed
\* trades (prices in units of 1 / stop_loss_pct.den).
trade_info(row, parameters, bld) ==
    LET den == parameters.stop_loss_pct.den
        calculated == bracket(row.is_long, row.entry_price, parameters)
    IN  [type |-> IF row.is_long THEN "long" ELSE "short",
         entry_price |-> row.entry_price * den,
         exit_price |-> row.exit_price,
         take_profit |-> IF bld.sl_tp_columns THEN row.tp ELSE calculated.tp,
         stop_loss |-> IF bld.sl_tp_columns THEN row.sl ELSE calculated.sl,
         exit_reason |-> IF bld.sl_tp_columns /\ row.exit_price = row.tp
                         THEN "take_profit" ELSE "stop_loss"]

\* A variant of next() that also orders on a cross against the position held,
\* which exclusive_orders then closes.
ma_cross_next_reversing(parameters, w, od, tr) ==
    LET entry_price == w[Len(w)].Close
        long_held == tr # << >> /\ tr[1].is_long
        short_held == tr # << >> /\ ~tr[1].is_long
    IN  IF fast_over_slow(w, parameters) /\ ~long_held
        THEN new_order(od, tr, TRUE, bracket(TRUE, entry_price, parameters))
        ELSE IF slow_over_fast(w, parameters) /\ ~short_held
        THEN new_order(od, tr, FALSE, bracket(FALSE, entry_price, parameters))
        ELSE od

\* SimpleMACrossBacktestStrategy.next: the order queue it leaves.
ma_cross_next(parameters, w, od, tr) ==
    LET entry_price == w[Len(w)].Close
    IN  IF fast_over_slow(w, parameters) /\ flat(tr)
        THEN new_order(od, tr, TRUE, bracket(TRUE, entry_price, parameters))
        ELSE IF slow_over_fast(w, parameters) /\ flat(tr)
        THEN new_order(od, tr, FALSE, bracket(FALSE, entry_price, parameters))
        ELSE od

\* RSIMACDComboBacktestStrategy.next: the order queue it leaves.
rsi_macd_next(parameters, w, rel, idx, od, tr, bull_div, bear_div) ==
    LET current_price == w[Len(w)].Close
    IN  IF idx < MinBarsForSignals THEN od
        ELSE IF flat(tr)
        THEN IF macd_cross_up(rel) \/ bull_div
             THEN new_order(od, tr, TRUE, bracket(TRUE, current_price, parameters))
             ELSE IF macd_cross_down(rel) \/ bear_div
             THEN new_order(od, tr, FALSE, bracket(FALSE, current_price, parameters))
             ELSE od
        ELSE od

\* Backtest.run starts after the longest warm-up of the indicators.
ma_cross_first_bar(parameters) == 1 + (parameters.slow_ma - 1)
rsi_macd_first_bar(first_pivot) == 1 + first_pivot
\* Index of the first RSI pivot of the series (0 when there is none).
FirstPivots == {0} \cup PivotSpan..(TradeBars - PivotSpan - 1)

\* The number of bars of the run, and the candles bar i can be: those of the
\* series the run is given, or any candle when the series is left open.
RunBars == IF data = << >> THEN TradeBars ELSE DataLen(data)
Feed(i) == IF data = << >> THEN TradeCandles ELSE {data[i]}
\* The last n bars before bar `start`.
FirstWindows(start, n) ==
    IF data = << >> THEN [1..n -> TradeCandles]
    ELSE {[k \in 1..n |-> data[start - n + k - 1]]}

\* The broker's check that the cash covers the entry on bar i.  It depends on
\* the cash, the prices and the trades so far; a run on its own may take
\* either outcome, the runs that are compared are given it with the series.
Affordable(i) == IF cash_covers = << >> THEN BOOLEAN ELSE {cash_covers[i]}

\* stats._trades after the rows of a broker step; only the runs that are
\* compared keep the list whole.
with_closed(closed, rows) == IF cash_covers = << >> THEN closed ELSE closed \o rows

\* Strategy.init and the bars before the first call of next().
TradeInit ==
    /\ pc = "created"
    /\ \E start \in IF params.strategy = "ma_cross"
                    THEN {ma_cross_first_bar(params)}
                    ELSE {rsi_macd_first_bar(fp) : fp \in FirstPivots} :
          /\ current_idx' = start - 1
          /\ recent' \in FirstWindows(start, Min2(start, window_size(params) - 1))
    /\ macd_rel' \in IF params.strategy = "rsi_macd"
                     THEN {<< 0, r >> : r \in Rels} ELSE {<< 0, 0 >>}
    /\ pc' = "broker"
    /\ UNCHANGED << params, rsi_pivots, orders, trades, build, trade_log >>
    /\ UNCHANGED structVars
    /\ UNCHANGED << runVars, compareVars, collected_levels, serviceVars >>

\* Backtest.run, first half of a bar: the next bar is revealed and the broker
\* processes its orders.
BrokerNext ==
    /\ pc = "broker"
    /\ current_idx + 1 < RunBars
    /\ \E c \in Feed(current_idx + 1), can_afford \in Affordable(current_idx + 1) :
          LET st == process_orders(orders, [trades |-> trades, log |-> << >>],
                                   c, recent[Len(recent)].Close, can_afford,
                                   params.stop_loss_pct.den, build)
          IN  /\ recent' = last_bars(Append(recent, c), window_size(params))
              /\ trades' = st.trades
              /\ trade_log' = st.log
              /\ closed_trades' = with_closed(closed_trades, st.log)
    /\ macd_rel' \in IF params.strategy = "rsi_macd"
                     THEN {<< macd_rel[2], r >> : r \in Rels} ELSE {macd_rel}
    /\ rsi_pivots' \in IF params.strategy = "rsi_macd"
                       THEN [bull : pivots_at(current_idx + 1, RunBars),
                             bear : pivots_at(current_idx + 1, RunBars)]
                       ELSE {NoPivots}
    /\ orders' = << >>
    /\ current_idx' = current_idx + 1
    /\ pc' = "strategy"
    /\ UNCHANGED << params, build >>
    /\ UNCHANGED structVars
    /\ UNCHANGED << runVars, earlier_trades, cash_covers, collected_levels, serviceVars >>

\* Backtest.run, second half of a bar: Strategy.next().
TradeNext ==
    /\ pc = "strategy"
    /\ \/ /\ params.strategy = "ma_cross"
          /\ orders' = ma_cross_next(params, recent, orders, trades)
       \/ /\ params.strategy = "rsi_macd"
          /\ orders' = rsi_macd_next(params, recent, macd_rel, current_idx,
                        orders, trades,
                        check_divergence(current_idx, rsi_pivots.bull # "none",
                                         rsi_pivots.bull = "diverging"),
                        check_divergence(current_idx, rsi_pivots.bear # "none",
                                         rsi_pivots.bear = "diverging"))
    /\ pc' = "broker"
    /\ UNCHANGED << params, current_idx, recent, macd_rel, rsi_pivots, trades, build,
                   trade_log >>
    /\ UNCHANGED structVars
    /\ UNCHANGED << runVars, compareVars, collected_levels, serviceVars >>

\* Backtest.run after the last bar: what is still open is closed at the last
\* close (or left out of the closed trades), what is still queued is dropped.
TradeFinish ==
    /\ pc = "broker"
    /\ current_idx + 1 = RunBars
    /\ trades' = << >>
    /\ orders' = << >>
    /\ trade_log' =
          IF build.finalize_trades
          THEN [k \in 1..Len(trades) |->
                   closed_trade(trades[k],
                       recent[Len(recent)].Close * params.stop_loss_pct.den, "end")]
          ELSE << >>
    /\ closed_trades' = with_closed(closed_trades, trade_log')
    /\ pc' = "finished"
    /\ UNCHANGED << params, current_idx, recent, macd_rel, rsi_pivots, build >>
    /\ UNCHANGED structVars
    /\ UNCHANGED << runVars, earlier_trades, cash_covers, collected_levels, serviceVars >>

TradeParameters ==
    {ma_cross_parameters(f, s) : f \in 1..2, s \in 2..3} \cup {rsi_macd_parameters}

\* A run of a strategy made with one of `parameter_sets` over `series`.
TradeStart(parameter_sets, series) ==
    /\ params \in parameter_sets
    /\ strategy_validate_parameters(params)
    /\ pc = "created"
    /\ current_idx = 0
    /\ data \in series
    /\ swing_highs = << >>
    /\ swing_lows = << >>
    /\ fvgs = << >>
    /\ order_blocks = << >>
    /\ levels = << >>
    /\ added_at = << >>
    /\ recent = << >>
    /\ macd_rel = << 0, 0 >>
    /\ rsi_pivots = NoPivots
    /\ orders = << >>
    /\ trades = << >>
    /\ build \in Builds
    /\ trade_log = << >>
    /\ NoRun

InitTrade == TradeStart(TradeParameters, {<< >>})

NextTrade == TradeInit \/ BrokerNext \/ TradeNext \/ TradeFinish

SpecTrade == InitTrade /\ [][NextTrade]_vars

\* The end-to-end scenario: MA Cross with fast 5 and slow 20 over a strictly
\* increasing close series of 200 bars.
ScenarioBars == 200
ScenarioBase == 100
ScenarioFast == 5
ScenarioSlow == 20
ScenarioBar(i) ==
    [Open |-> ScenarioBase + i, High |-> ScenarioBase + i,
     Low |-> ScenarioBase + i, Close |-> ScenarioBase + i]
ScenarioSeries == [i \in 0..(ScenarioBars - 1) |-> ScenarioBar(i)]

InitScenario ==
    TradeStart({ma_cross_parameters(ScenarioFast, ScenarioSlow)}, {ScenarioSeries})

SpecScenario == InitScenario /\ [][NextTrade]_vars

\* ------------------------------------------- parameters and the bracket
\* The values a caller can put in a parameter mapping: inside, at the edges of
\* and outside what the schemas and the validation rules accept.
FastValues == {0, 1, 2, 101}
SlowValues == {1, 2, 3, 201}
RiskRewardValues == {0, 1, 2, 10, 11}
StopLossValues ==
    {[num |-> 0, den |-> 1], [num |-> 1, den |-> 20], [num |-> 1, den |-> 10],
     [num |-> 1, den |-> 4], [num |-> 1, den |-> 2], [num |-> 1, den |-> 1]}
RsiLengthValues == {1, 2, 14, 51}
MacdFastValues == {4, 12, 21}
MacdSlowValues == {12, 26, 51}
MacdSignalValues == {4, 9}
EntryPrices == {2, 10}

\* A mapping without one of its keys.
without_key(parameters, key) ==
    [k \in DOMAIN parameters \ {key} |-> parameters[k]]

ma_cross_mappings ==
    [strategy : {"ma_cross"}, fast_ma : FastValues, slow_ma : SlowValues,
     risk_reward : RiskRewardValues, stop_loss_pct : StopLossValues]
rsi_macd_mappings ==
    [strategy : {"rsi_macd"}, rsi_length : RsiLengthValues,
     macd_fast : MacdFastValues, macd_slow : MacdSlowValues,
     macd_signal : MacdSignalValues, risk_reward : {2, 10},
     stop_loss_pct : {[num |-> 1, den |-> 50], [num |-> 1, den |-> 4]}]
ParameterMappings ==
    ma_cross_mappings \cup rsi_macd_mappings
    \cup {without_key(ma_cross_parameters(1, 2), key) :
              key \in {"fast_ma", "slow_ma", "risk_reward", "stop_loss_pct"}}
    \cup {without_key(rsi_macd_parameters, key) :
              key \in {"rsi_length", "macd_fast", "macd_slow", "macd_signal"}}

InitParameters ==
    /\ params \in ParameterMappings
    /\ pc = "created"
    /\ current_idx = 0
    /\ data = << >>
    /\ swing_highs = << >>
    /\ swing_lows = << >>
    /\ fvgs = << >>
    /\ order_blocks = << >>
    /\ levels = << >>
    /\ added_at = << >>
    /\ NoTrading
    /\ NoRun

\* run_flexible_backtest: the mapping is validated before anything runs.
Validate ==
    /\ pc = "created"
    /\ pc' = IF strategy_validate_parameters(params) THEN "validated" ELSE "rejected"
    /\ UNCHANGED << params, current_idx >>
    /\ UNCHANGED structVars
    /\ UNCHANGED tradeVars
    /\ UNCHANGED << runVars, compareVars, collected_levels, serviceVars >>

\* next() on a bar with an entry signal and no position: the bracket computed
\* from the close, handed to buy() / sell().
PlaceEntry ==
    /\ pc = "validated"
    /\ \E entry_price \in EntryPrices, is_long \in BOOLEAN :
          /\ recent' = << [Open |-> entry_price, High |-> entry_price,
                           Low |-> entry_price, Close |-> entry_price] >>
          /\ orders' = new_order(orders, trades, is_long,
                                 bracket(is_long, entry_price, params))
    /\ pc' = "entered"
    /\ UNCHANGED << params, current_idx, macd_rel, rsi_pivots, trades, build, trade_log >>
    /\ UNCHANGED structVars
    /\ UNCHANGED << runVars, compareVars, collected_levels, serviceVars >>

NextParameters == Validate \/ PlaceEntry

SpecParameters == InitParameters /\ [][NextParameters]_vars

\* ------------------------------------------------- run_flexible_backtest
\* Largest number of bars a loaded series has in these runs.
RunnerBars == 4

\* The merged mappings (defaults updated with the caller's values) the
\* strategy instance holds: MA Cross with every pair of periods.
RunnerMappings ==
    {parameters \in ma_cross_mappings :
        parameters.risk_reward = 2 /\ parameters.stop_loss_pct = [num |-> 1, den |-> 4]}

\* The call before its first statement.
runner_start(save_to_db) ==
    [stage |-> "validate", save_to_db |-> save_to_db, bars |-> None,
     loaded |-> FALSE, class_created |-> FALSE, runs |-> 0, stepped |-> 0,
     step_raised |-> FALSE, results |-> FALSE, save_attempts |-> 0,
     save_raised |-> FALSE, stored |-> FALSE, id |-> None, returned |-> "pending"]

\* return None / an exception leaving the function / return results
runner_return(r, value) == [r EXCEPT !.stage = "done", !.returned = value]

InitRunner ==
    /\ params \in RunnerMappings
    /\ \E save_to_db \in BOOLEAN : runner = runner_start(save_to_db)
    /\ NoFrames
    /\ NoResults
    /\ collected_levels = << >>
    /\ NoService
    /\ NoCompare
    /\ pc = "created"
    /\ current_idx = 0
    /\ data = << >>
    /\ swing_highs = << >>
    /\ swing_lows = << >>
    /\ fvgs = << >>
    /\ order_blocks = << >>
    /\ levels = << >>
    /\ added_at = << >>
    /\ NoTrading

RunnerUnchanged ==
    /\ UNCHANGED << params, pc, current_idx, data_dict, prepared_data,
                    pnl_list, results, collected_levels, serviceVars >>
    /\ UNCHANGED compareVars
    /\ UNCHANGED structVars
    /\ UNCHANGED tradeVars

\* A variant that goes on to load the data whatever validate_parameters says.
RunnerValidateIgnored ==
    /\ runner.stage = "validate"
    /\ runner' = [runner EXCEPT !.stage = "load"]
    /\ RunnerUnchanged

\* if not strategy_instance.validate_parameters(...): return None
RunnerValidate ==
    /\ runner.stage = "validate"
    /\ runner' = IF strategy_validate_parameters(params)
                 THEN [runner EXCEPT !.stage = "load"]
                 ELSE runner_return(runner, "None")
    /\ RunnerUnchanged

\* load_multi_timeframe_data: no file of any exchange, or a file without rows
\* (data.index[0] raises inside the try), gives None; otherwise the series.
RunnerLoad ==
    /\ runner.stage = "load"
    /\ \E found \in BOOLEAN, n \in 0..RunnerBars :
          runner' = IF found /\ n > 0
                    THEN [runner EXCEPT !.stage = "prepare", !.loaded = TRUE,
                                        !.bars = n]
                    ELSE runner_return(runner, "None")
    /\ RunnerUnchanged

\* prepare_data raises when a timeframe or a required column is missing.
RunnerPrepare ==
    /\ runner.stage = "prepare"
    /\ \E raised \in BOOLEAN :
          runner' = IF raised THEN runner_return(runner, "None")
                    ELSE [runner EXCEPT !.stage = "create"]
    /\ RunnerUnchanged

\* create_strategy_class and Backtest(...), outside any try: an exception of
\* the constructor leaves the function.
RunnerCreate ==
    /\ runner.stage = "create"
    /\ \E raised \in BOOLEAN :
          runner' = IF raised
                    THEN runner_return([runner EXCEPT !.class_created = TRUE],
                                       "raised")
                    ELSE [runner EXCEPT !.stage = "run", !.class_created = TRUE,
                                        !.runs = @ + 1]
    /\ RunnerUnchanged

\* A variant in which an exception at a bar ends the stepping and the rows
\* collected so far are processed.
RunnerStepTruncating ==
    /\ runner.stage = "run"
    /\ runner.stepped < runner.bars
    /\ \E raised \in BOOLEAN :
          runner' = IF raised
                    THEN [runner EXCEPT !.step_raised = TRUE, !.stage = "process"]
                    ELSE [runner EXCEPT !.stepped = @ + 1]
    /\ RunnerUnchanged

\* bt.run(), one bar: an exception at a bar is caught by the except of the
\* function, which returns None.
RunnerStep ==
    /\ runner.stage = "run"
    /\ runner.stepped < runner.bars
    /\ \E raised \in BOOLEAN :
          runner' = IF raised
                    THEN runner_return([runner EXCEPT !.step_raised = TRUE], "None")
                    ELSE [runner EXCEPT !.stepped = @ + 1]
    /\ RunnerUnchanged

\* bt.run() returns after the last bar.
RunnerRunEnd ==
    /\ runner.stage = "run"
    /\ runner.stepped = runner.bars
    /\ runner' = [runner EXCEPT !.stage = "process"]
    /\ RunnerUnchanged

\* The trades, the drawings and the results dict; an exception here is caught
\* by the same except.
RunnerProcess ==
    /\ runner.stage = "process"
    /\ \E raised \in BOOLEAN :
          runner' = IF raised THEN runner_return(runner, "None")
                    ELSE [runner EXCEPT !.results = TRUE,
                             !.stage = IF runner.save_to_db THEN "save" ELSE "return"]
    /\ RunnerUnchanged

\* A variant in which a failing save makes the call return None.
RunnerSaveFatal ==
    /\ runner.stage = "save"
    /\ \E raised \in BOOLEAN :
          runner' = IF raised
                    THEN runner_return([runner EXCEPT !.save_attempts = @ + 1,
                                                      !.save_raised = TRUE], "None")
                    ELSE [runner EXCEPT !.save_attempts = @ + 1, !.stored = TRUE,
                                        !.id = 1, !.stage = "return"]
    /\ RunnerUnchanged

\* if save_to_db: repository.create(results) inside its own try / except; it
\* can raise before its commit or after it (db.refresh).
RunnerSave ==
    /\ runner.stage = "save"
    /\ \E raised, committed \in BOOLEAN :
          runner' = IF raised
                    THEN [runner EXCEPT !.save_attempts = @ + 1,
                                        !.save_raised = TRUE,
                                        !.stored = committed, !.stage = "return"]
                    ELSE [runner EXCEPT !.save_attempts = @ + 1, !.stored = TRUE,
                                        !.id = 1, !.stage = "return"]
    /\ RunnerUnchanged

\* return results
RunnerReturn ==
    /\ runner.stage = "return"
    /\ runner' = runner_return(runner, "results")
    /\ RunnerUnchanged

NextRunner ==
    \/ RunnerValidate \/ RunnerLoad \/ RunnerPrepare \/ RunnerCreate
    \/ RunnerStep \/ RunnerRunEnd \/ RunnerProcess \/ RunnerSave \/ RunnerReturn

SpecRunner == InitRunner /\ [][NextRunner]_vars

\* ------------------------------------------------------ data preparation
\* Rows of a file and the timestamps they carry.
FrameRows == 3
FrameTimes == 3
FrameBars == {WickUp, WickDown}
Frames ==
    UNION {[1..n -> [time : 1..FrameTimes, bar : FrameBars]] : n \in 0..FrameRows}

\* pandas Index.is_monotonic_increasing
is_monotonic_increasing(rows) ==
    \A i \in 1..(Len(rows) - 1) : rows[i].time <= rows[i + 1].time

\* DataFrame.sort_index(): a frame whose index is already monotonic comes back
\* as it is; otherwise the rows come back ordered by timestamp, rows of equal
\* timestamp in an order the (unstable) quicksort does not fix.
sort_index(rows) ==
    IF is_monotonic_increasing(rows) THEN {rows}
    ELSE {sorted \in {[i \in 1..Len(rows) |-> rows[order[i]]] :
                          order \in Permutations(1..Len(rows))} :
             is_monotonic_increasing(sorted)}

\* A variant that drops the rows whose timestamp has a later row, keeping the
\* last row of each timestamp.
RECURSIVE drop_duplicates_by_time(_, _)
drop_duplicates_by_time(rows, k) ==
    IF k = 0 THEN << >>
    ELSE LET head == drop_duplicates_by_time(rows, k - 1)
         IN  IF \E j \in (k + 1)..Len(rows) : rows[j].time = rows[k].time
             THEN head ELSE Append(head, rows[k])

\* DataFrame.drop_duplicates() over the first k rows: a row is dropped when an
\* earlier row has the same values in every column; the index (the timestamp)
\* is not a column.
RECURSIVE drop_duplicates(_, _)
drop_duplicates(rows, k) ==
    IF k = 0 THEN << >>
    ELSE LET head == drop_duplicates(rows, k - 1)
         IN  IF \E j \in 1..(k - 1) : rows[j].bar = rows[k].bar
             THEN head ELSE Append(head, rows[k])

\* df.sort_index().drop_duplicates()
sort_and_drop(rows) ==
    {drop_duplicates(sorted, Len(sorted)) : sorted \in sort_index(rows)}

InitData ==
    /\ data \in Frames
    /\ params = default_parameters(2, FALSE)
    /\ pc = "file"
    /\ current_idx = 0
    /\ swing_highs = << >>
    /\ swing_lows = << >>
    /\ fvgs = << >>
    /\ order_blocks = << >>
    /\ levels = << >>
    /\ added_at = << >>
    /\ NoTrading
    /\ NoRun

\* load_multi_timeframe_data: the rows of the file, sorted and de-duplicated.
LoadData ==
    /\ pc = "file"
    /\ data_dict' \in sort_and_drop(data)
    /\ pc' = "loaded"
    /\ UNCHANGED << params, current_idx, runner, prepared_data, pnl_list,
                    results, collected_levels, serviceVars >>
    /\ UNCHANGED compareVars
    /\ UNCHANGED structVars
    /\ UNCHANGED tradeVars

\* BaseBacktestStrategy.prepare_data: a copy, sorted and de-duplicated again.
PrepareData ==
    /\ pc = "loaded"
    /\ prepared_data' \in sort_and_drop(data_dict)
    /\ pc' = "prepared"
    /\ UNCHANGED << params, current_idx, runner, data_dict, pnl_list,
                    results, collected_levels, serviceVars >>
    /\ UNCHANGED compareVars
    /\ UNCHANGED structVars
    /\ UNCHANGED tradeVars

NextData == LoadData \/ PrepareData

SpecData == InitData /\ [][NextData]_vars

\* ============================================================ statistics
\* The statistics of the results dict, computed from the closed trades
\* (run_flexible_backtest, run_backtest) and read back from the repository.
ShortLen == 3
LongLen == 20
PnlValues == {-50, -20, -10, 5, 30}

\* A float of the results dict: a number, float('nan') or None.
Number(v) == [kind |-> "number", value |-> v]
FloatNaN == [kind |-> "nan", value |-> 0]
Null == [kind |-> "null", value |-> 0]

\* The PnL lists of the runs: every short list, the documented list in two
\* orders, and long lists of mixed signs.
ShortLists == UNION { [1..n -> PnlValues] : n \in 0..ShortLen }
LongLists ==
    { [k \in 1..n |-> ((a * k + b) % 23) - 11] :
        n \in {LongLen - 1, LongLen, LongLen + 1, 2 * LongLen, 2 * LongLen + 1},
        a \in {1, 5, 7}, b \in 0..2 }
PnlLists ==
    ShortLists \cup LongLists
        \cup { << -50, -20, -10, 5, 30 >>, << 5, -50, 30, -10, -20 >> }

Abs(x) == IF x < 0 THEN 0 - x ELSE x

SeqMin(s) == CHOOSE x \in { s[i] : i \in DOMAIN s } :
                 \A i \in DOMAIN s : x <= s[i]
WithoutAt(s, i) == [k \in 1..(Len(s) - 1) |-> IF k < i THEN s[k] ELSE s[k + 1]]

\* sorted(pnl_list): ascending.
RECURSIVE sorted(_)
sorted(s) ==
    IF s = << >> THEN << >>
    ELSE LET lo == SeqMin(s)
             i == CHOOSE k \in DOMAIN s : s[k] = lo
         IN << lo >> \o sorted(WithoutAt(s, i))

\* int(len(sorted_pnl) * 0.05): the product is never below the exact one
\* (0.05 is stored slightly above 1/20), so it truncates to n div 20.
var_index(n) == (n * 5) \div 100

\* A variant that indexes the list as the trades closed, without sorting.
value_at_risk_unsorted(pnl) ==
    IF pnl # << >>
    THEN IF var_index(Len(pnl)) < Len(pnl)
         THEN Abs(pnl[var_index(Len(pnl)) + 1]) ELSE 0
    ELSE 0

\* Value at Risk (95% confidence); 0 when there is no trade.
value_at_risk(pnl) ==
    IF pnl # << >>
    THEN LET sorted_pnl == sorted(pnl)
         IN IF var_index(Len(sorted_pnl)) < Len(sorted_pnl)
            THEN Abs(sorted_pnl[var_index(Len(sorted_pnl)) + 1]) ELSE 0
    ELSE 0

\* What bt.run() reports about the closed trades.  Without a trade the win
\* rate, the Sharpe ratio and the profit factor are NaN; with trades the win
\* rate is the share of winners, and the other two are numbers or NaN (no
\* volatility, no losing trade).
LibraryFloats == {FloatNaN, Number(0), Number(2)}
Winners(pnl) == Cardinality({ i \in DOMAIN pnl : pnl[i] > 0 })
library_stats(pnl) ==
    IF pnl = << >>
    THEN { [win_rate_pct |-> FloatNaN, sharpe_ratio |-> FloatNaN,
            profit_factor |-> FloatNaN] }
    ELSE { [win_rate_pct |-> Number((100 * Winners(pnl)) \div Len(pnl)),
            sharpe_ratio |-> s, profit_factor |-> f] :
              s \in LibraryFloats, f \in LibraryFloats }

\* x / 100 of a float: NaN stays NaN.
Div100(x) == IF x.kind = "number" THEN Number(x.value \div 100) ELSE x

RECURSIVE SeqSum(_)
SeqSum(s) == IF s = << >> THEN 0 ELSE s[1] + SeqSum(Tail(s))

\* The statistics fields of the results dict.
results_dict(pnl, stats) ==
    [ total_trades |-> Len(pnl),
      win_rate |-> Div100(stats.win_rate_pct),
      sharpe_ratio |-> stats.sharpe_ratio,
      profit_factor |-> stats.profit_factor,
      value_at_risk |-> Number(value_at_risk(pnl)),
      average_pnl |-> IF Len(pnl) > 0 THEN Number(SeqSum(pnl) \div Len(pnl))
                      ELSE Number(0),
      profitable_trades |-> Winners(pnl),
      loss_trades |-> Len(pnl) - Winners(pnl) ]

\* BacktestRepository._convert_nan_to_none on one value.
convert_nan_to_none(x) == IF x.kind = "nan" THEN Null ELSE x

\* _serialize_backtest: the stored fields, NaN replaced by None.
serialize_backtest(r) ==
    [ r EXCEPT !.win_rate = convert_nan_to_none(@),
               !.sharpe_ratio = convert_nan_to_none(@),
               !.profit_factor = convert_nan_to_none(@),
               !.value_at_risk = convert_nan_to_none(@),
               !.average_pnl = convert_nan_to_none(@) ]

InitStats ==
    /\ pnl_list \in PnlLists
    /\ results = << >>
    /\ pc = "ran"
    /\ params = default_parameters(2, FALSE)
    /\ current_idx = 0
    /\ data = << >>
    /\ swing_highs = << >>
    /\ swing_lows = << >>
    /\ fvgs = << >>
    /\ order_blocks = << >>
    /\ levels = << >>
    /\ added_at = << >>
    /\ NoTrading
    /\ runner = << >>
    /\ NoFrames
    /\ collected_levels = << >>
    /\ NoService
    /\ NoCompare

StatsUnchanged ==
    /\ UNCHANGED << params, current_idx, pnl_list, runner, data_dict,
                    prepared_data, collected_levels, serviceVars >>
    /\ UNCHANGED compareVars
    /\ UNCHANGED structVars
    /\ UNCHANGED tradeVars

\* The trades loop, the Value at Risk and the results dict.
ComputeResults ==
    /\ pc = "ran"
    /\ \E stats \in library_stats(pnl_list) :
          results' = results_dict(pnl_list, stats)
    /\ pc' = "computed"
    /\ StatsUnchanged

\* The result as the repository gives it back after the save.
SerializeResults ==
    /\ pc = "computed"
    /\ results' = serialize_backtest(results)
    /\ pc' = "serialized"
    /\ StatsUnchanged

NextStats == ComputeResults \/ SerializeResults

SpecStats == InitStats /\ [][NextStats]_vars

\* ======================================================= runs of one class
\* The class create_strategy_class returns is run, and then run again or
\* generated anew, on series of RerunBars wick candles.
RerunBars == 7
MaxRuns == 2

RerunSeries ==
    {d \in [0..RerunBars-1 -> {WickUp, WickDown}] : d[0] = WickDown}

InitRerun ==
    /\ data \in RerunSeries
    /\ params = default_parameters(2, FALSE)
    /\ pc = "created"
    /\ current_idx = 0
    /\ swing_highs = << >>
    /\ swing_lows = << >>
    /\ fvgs = << >>
    /\ order_blocks = << >>
    /\ levels = << >>
    /\ added_at = << >>
    /\ NoTrading
    /\ runner = [runs |-> 1, classes |-> 1]
    /\ NoFrames
    /\ NoResults
    /\ collected_levels = << >>
    /\ NoService
    /\ NoCompare

RerunUnchanged ==
    /\ UNCHANGED << params, swing_highs, swing_lows, fvgs, order_blocks,
                    levels, added_at, data_dict, prepared_data, pnl_list,
                    results >>
    /\ UNCHANGED compareVars
    /\ UNCHANGED tradeVars
    /\ UNCHANGED serviceVars

\* Backtest(data, BacktestStrategy, ...) with the class of the finished run:
\* the class and its _collected_levels are the same objects.
RunAgain ==
    /\ pc = "finished"
    /\ runner.runs < MaxRuns
    /\ data' \in RerunSeries
    /\ pc' = "created"
    /\ current_idx' = 0
    /\ runner' = [runner EXCEPT !.runs = @ + 1]
    /\ UNCHANGED collected_levels
    /\ RerunUnchanged

\* create_strategy_class once more, and Backtest with the new class:
\* self._detected_levels = [] and a new class with _collected_levels = [].
CreateAgain ==
    /\ pc = "finished"
    /\ runner.runs < MaxRuns
    /\ data' \in RerunSeries
    /\ pc' = "created"
    /\ current_idx' = 0
    /\ runner' = [runner EXCEPT !.runs = @ + 1, !.classes = @ + 1]
    /\ collected_levels' = << >>
    /\ RerunUnchanged

NextRerun == StrategyInit \/ StrategyNext \/ RunAgain \/ CreateAgain

SpecRerun == InitRerun /\ [][NextRerun]_vars

\* ============================================================ compared runs
\* run_flexible_backtest called again with the same series, strategy and
\* parameters: MA Cross 1 / 2 over every series of TwinBars candles.
TwinBars == 6
TwinCandles == {BodyUp, BodyDown, GapBar}
TwinSeries == [0..TwinBars-1 -> TwinCandles]
\* The cash covers every entry, or the entries of the even bars only.
CashSchedules ==
    {[i \in 0..TwinBars-1 |-> TRUE], [i \in 0..TwinBars-1 |-> i % 2 = 0]}

InitTwin ==
    /\ params = ma_cross_parameters(1, 2)
    /\ strategy_validate_parameters(params)
    /\ pc = "created"
    /\ current_idx = 0
    /\ data \in TwinSeries
    /\ swing_highs = << >>
    /\ swing_lows = << >>
    /\ fvgs = << >>
    /\ order_blocks = << >>
    /\ levels = << >>
    /\ added_at = << >>
    /\ recent = << >>
    /\ macd_rel = << 0, 0 >>
    /\ rsi_pivots = NoPivots
    /\ orders = << >>
    /\ trades = << >>
    /\ build \in Builds
    /\ trade_log = << >>
    /\ runner = << >>
    /\ NoFrames
    /\ NoResults
    /\ collected_levels = << >>
    /\ NoService
    /\ closed_trades = << >>
    /\ earlier_trades = << >>
    /\ cash_covers \in CashSchedules

\* A variant in which the new run goes on with the trades frame of the
\* earlier one.
TradeAgainKeepingTrades ==
    /\ pc = "finished"
    /\ cash_covers # << >>
    /\ Len(earlier_trades) < MaxRuns - 1
    /\ earlier_trades' = Append(earlier_trades, closed_trades)
    /\ closed_trades' = closed_trades
    /\ pc' = "created"
    /\ current_idx' = 0
    /\ recent' = << >>
    /\ macd_rel' = << 0, 0 >>
    /\ rsi_pivots' = NoPivots
    /\ orders' = << >>
    /\ trades' = << >>
    /\ trade_log' = << >>
    /\ UNCHANGED << params, build, cash_covers, collected_levels, serviceVars >>
    /\ UNCHANGED structVars
    /\ UNCHANGED runVars

\* The next call: a new strategy instance, a new class, a new Backtest with
\* its own broker and trades; the caller keeps the trades of the run before.
TradeAgain ==
    /\ pc = "finished"
    /\ cash_covers # << >>
    /\ Len(earlier_trades) < MaxRuns - 1
    /\ earlier_trades' = Append(earlier_trades, closed_trades)
    /\ closed_trades' = << >>
    /\ pc' = "created"
    /\ current_idx' = 0
    /\ recent' = << >>
    /\ macd_rel' = << 0, 0 >>
    /\ rsi_pivots' = NoPivots
    /\ orders' = << >>
    /\ trades' = << >>
    /\ trade_log' = << >>
    /\ UNCHANGED << params, build, cash_covers, collected_levels, serviceVars >>
    /\ UNCHANGED structVars
    /\ UNCHANGED runVars

NextTwin == TradeInit \/ BrokerNext \/ TradeNext \/ TradeFinish \/ TradeAgain

SpecTwin == InitTwin /\ [][NextTwin]_vars

\* ===================================================== the strategy registry
\* None of the older variables takes part in what follows.
NothingRuns ==
    /\ data = << >>
    /\ pc = "created"
    /\ current_idx = 0
    /\ swing_highs = << >>
    /\ swing_lows = << >>
    /\ fvgs = << >>
    /\ order_blocks = << >>
    /\ levels = << >>
    /\ added_at = << >>
    /\ NoTrading
    /\ runner = << >>
    /\ NoFrames
    /\ NoResults
    /\ collected_levels = << >>
    /\ NoCompare
NothingRunsUnchanged ==
    /\ UNCHANGED << params, pc, current_idx, collected_levels >>
    /\ UNCHANGED structVars
    /\ UNCHANGED tradeVars
    /\ UNCHANGED runVars
    /\ UNCHANGED compareVars

\* The files of the package app.backtesting.strategies, as paths below its
\* directory without the .py, each with the classes it defines.  Neither
\* sub-directory has an __init__.py, so a name that is both a file and a
\* directory is the file.
ModuleFiles ==
    (<< "rsi_macd_combo_strategy" >> :> {"RSIMACDComboStrategy"})
    @@ (<< "simple_ma_cross", "simple_ma_cross_strategy" >> :> {"SimpleMACrossStrategy"})
    @@ (<< "smart_money_simple_test" >> :> {"SmartMoneySimpleTestStrategy"})
    @@ (<< "smart_money_simple_test", "smart_money_simple_test" >>
            :> {"SmartMoneySimpleTestStrategy"})

\* The `from .module import name` lines of the package, in order.
StrategyImports ==
    << [module |-> "simple_ma_cross_strategy", name |-> "SimpleMACrossStrategy"],
       [module |-> "smart_money_simple_test", name |-> "SmartMoneySimpleTestStrategy"],
       [module |-> "rsi_macd_combo_strategy", name |-> "RSIMACDComboStrategy"] >>

\* `from .module import name` inside the package: the module is the file
\* module.py of the package's directory, failing that a directory of that
\* name, which without an __init__.py defines nothing.
import_outcome(import) ==
    IF << import.module >> \in DOMAIN ModuleFiles
    THEN IF import.name \in ModuleFiles[<< import.module >>]
         THEN "imported" ELSE "ImportError"
    ELSE IF \E path \in DOMAIN ModuleFiles : path[1] = import.module
         THEN "ImportError" ELSE "ModuleNotFoundError"

\* The first import that fails decides what importing the package raises.
RECURSIVE package_outcome(_, _)
package_outcome(imports, k) ==
    IF k > Len(imports) THEN "imported"
    ELSE IF import_outcome(imports[k]) # "imported" THEN import_outcome(imports[k])
    ELSE package_outcome(imports, k + 1)

STRATEGY_REGISTRY ==
    [simple_ma_cross |-> "SimpleMACrossStrategy",
     smart_money_concepts |-> "SmartMoneySimpleTestStrategy",
     rsi_macd_combo |-> "RSIMACDComboStrategy"]

\* get_default_parameters of each class (the keys validate_parameters reads
\* and the bracket's).
class_default_parameters(strategy_class) ==
    IF strategy_class = "SimpleMACrossStrategy"
    THEN [strategy |-> "ma_cross", fast_ma |-> 28, slow_ma |-> 100,
          risk_reward |-> 2, stop_loss_pct |-> [num |-> 1, den |-> 50]]
    ELSE IF strategy_class = "RSIMACDComboStrategy"
    THEN [strategy |-> "rsi_macd", rsi_length |-> 14, macd_fast |-> 12,
          macd_slow |-> 26, macd_signal |-> 9,
          risk_reward |-> 2, stop_loss_pct |-> [num |-> 1, den |-> 50]]
    ELSE default_parameters(3, FALSE)

\* strategy_class().validate_parameters(parameters)
class_validate_parameters(strategy_class, parameters) ==
    IF strategy_class = "SimpleMACrossStrategy"
    THEN ma_cross_validate_parameters(parameters)
    ELSE IF strategy_class = "RSIMACDComboStrategy"
    THEN rsi_macd_validate_parameters(parameters)
    ELSE validate_parameters(parameters)

\* The names a caller may ask get_strategy for.
StrategyNames == DOMAIN STRATEGY_REGISTRY \cup {"bollinger_bands"}

InitRegistry ==
    /\ params \in ParameterMappings
    /\ NothingRuns
    /\ registry \in [status : {"not_imported"}, listed : {{}},
                     strategy_name : StrategyNames, strategy_class : {"none"}]
    /\ bybit = << >>
    /\ store = << >>

\* `from app.backtesting.strategies import get_strategy, list_strategies`,
\* then list_strategies() and get_strategy(strategy_name): the package's
\* imports run first, and nothing of the package exists when one fails.
ImportStrategies ==
    /\ registry.status = "not_imported"
    /\ LET outcome == package_outcome(StrategyImports, 1)
       IN  registry' =
               IF outcome = "imported"
               THEN [registry EXCEPT
                        !.status = outcome,
                        !.listed = DOMAIN STRATEGY_REGISTRY,
                        !.strategy_class =
                            IF registry.strategy_name \in DOMAIN STRATEGY_REGISTRY
                            THEN STRATEGY_REGISTRY[registry.strategy_name]
                            ELSE "ValueError"]
               ELSE [registry EXCEPT !.status = outcome]
    /\ UNCHANGED << bybit, store >>
    /\ NothingRunsUnchanged

NextRegistry == ImportStrategies

SpecRegistry == InitRegistry /\ [][NextRegistry]_vars

\* ================================================== the Bybit stream manager
\* self.max_reconnect_attempts
max_reconnect_attempts == 5

\* The clients' session ids, the symbols and the intervals of the rooms.
Sids == {"sid_a", "sid_b"}
Symbols == {"BTCUSDT"}
Intervals == {"1m", "1h", "60"}

\* BYBIT_INTERVAL_MAP, on the intervals above that it holds.
BYBIT_INTERVAL_MAP == [interval \in {"1m", "1h"} |->
                          IF interval = "1m" THEN "1" ELSE "60"]

\* f"kline.{interval_bybit}.{symbol}" with
\* interval_bybit = BYBIT_INTERVAL_MAP.get(interval, interval)
topic_of(symbol, interval) ==
    [kline |-> IF interval \in DOMAIN BYBIT_INTERVAL_MAP
               THEN BYBIT_INTERVAL_MAP[interval] ELSE interval,
     symbol |-> symbol]

Topics == {topic_of(symbol, interval) : symbol \in Symbols, interval \in Intervals}
NoTopic == [kline |-> "none", symbol |-> "none"]

\* The coroutines that run on the event loop: one handler per client, the
\* listen task and the startup hook.
Tasks == Sids \cup {"listen", "startup"}
Idle == [pc |-> "idle", op |-> "none", topic |-> NoTopic, after |-> "none"]

\* json.dumps({"op": op, "args": [topic]}) handed to self.ws.send
message(op, topic) == [op |-> op, topic |-> topic]

\* `async with self.lock` is entered without waiting.
lock_ignored(b) == TRUE
lock_is_free(b) == b.lock = "free"

\* Leaving `async with self.lock`: the call returns.  A subscribe that has
\* returned is remembered until the client unsubscribes.
finish_call(b, x) ==
    [b EXCEPT !.lock = "free",
              !.task[x] = Idle,
              !.subscribed = IF b.task[x].op = "subscribe"
                             THEN @ \cup {<< x, b.task[x].topic >>} ELSE @]

\* subscribe after ensure_connected: `if self.is_connected and self.ws`,
\* then the await of self.ws.send.
continue_subscribe(b, x) ==
    IF b.is_connected /\ b.ws THEN [b EXCEPT !.task[x].pc = "sending"]
    ELSE finish_call(b, x)

\* Where connect() or handle_reconnect() returns to.
after_cycle(b, x) ==
    IF x \in Sids
    THEN IF b.task[x].after = "send" THEN continue_subscribe(b, x)
         ELSE finish_call(b, x)
    ELSE [b EXCEPT !.task[x].pc = "done"]

\* A variant of handle_reconnect without the limit of attempts.
handle_reconnect_unlimited(b, x) ==
    [b EXCEPT !.reconnect_attempts = @ + 1, !.task[x].pc = "reconnecting"]
\* handle_reconnect up to its first await: give up at the limit, else count
\* the attempt; the sleep and the connect() that follow are "reconnecting".
handle_reconnect(b, x) ==
    IF b.reconnect_attempts >= max_reconnect_attempts THEN after_cycle(b, x)
    ELSE [b EXCEPT !.reconnect_attempts = @ + 1, !.task[x].pc = "reconnecting"]

\* resubscribe_all: one subscribe for every active topic.
resubscribe_all(b) ==
    IF ~b.is_connected \/ ~b.ws THEN {}
    ELSE {message("subscribe", topic) : topic \in b.active_topics}

InitSocket ==
    /\ params = default_parameters(2, FALSE)
    /\ NothingRuns
    /\ registry = << >>
    /\ store = << >>
    /\ bybit = [active_topics |-> {},
                clients_per_topic |-> [topic \in Topics |-> {}],
                ws |-> FALSE,
                is_connected |-> FALSE,
                reconnect_attempts |-> 0,
                lock |-> "free",
                task |-> [x \in Tasks |-> Idle],
                sent |-> {},
                subscribed |-> {},
                event |-> [kind |-> "none", task |-> "none", topic |-> NoTopic]]

SocketUnchanged ==
    /\ UNCHANGED << registry, store >>
    /\ NothingRunsUnchanged

\* What a step leaves behind for the properties: the messages it sent
\* upstream and what happened.
stepped(b, sent, kind, x, topic) ==
    [b EXCEPT !.sent = sent,
              !.event = [kind |-> kind, task |-> x, topic |-> topic]]

\* The startup hook: await bybit_ws_manager.connect(), up to the await of
\* websockets.connect.
start_bybit_ws ==
    /\ bybit.task["startup"].pc = "idle"
    /\ bybit' = stepped([bybit EXCEPT !.task["startup"].pc = "connecting"],
                        {}, "startup", "startup", NoTopic)
    /\ SocketUnchanged

\* websockets.connect returns or raises in connect(), called by the startup
\* hook, by ensure_connected or by handle_reconnect after its sleep.  On
\* success the old listen task is cancelled and a new one is created.
connect_returns ==
    /\ \E x \in Tasks, connected \in BOOLEAN :
          /\ bybit.task[x].pc \in {"connecting", "reconnecting"}
          /\ bybit' =
                IF connected
                THEN LET b1 == [bybit EXCEPT !.ws = TRUE,
                                             !.is_connected = TRUE,
                                             !.reconnect_attempts = 0]
                         b2 == after_cycle(b1, x)
                     IN  stepped([b2 EXCEPT !.task["listen"].pc = "listening"],
                                 resubscribe_all(b1), "connected", x, NoTopic)
                ELSE handle_reconnect(
                         stepped([bybit EXCEPT !.is_connected = FALSE],
                                 {}, "failed", x, NoTopic), x)
    /\ SocketUnchanged

\* listen(): the iteration over self.ws raises (ConnectionClosed or another
\* exception).
listen_raises ==
    /\ bybit.task["listen"].pc = "listening"
    /\ bybit' = handle_reconnect(
                    stepped([bybit EXCEPT !.is_connected = FALSE],
                            {}, "lost", "listen", NoTopic), "listen")
    /\ SocketUnchanged

\* listen(): a message arrives while is_connected is False: break.
listen_breaks ==
    /\ bybit.task["listen"].pc = "listening"
    /\ ~bybit.is_connected
    /\ bybit' = stepped([bybit EXCEPT !.task["listen"].pc = "done"],
                        {}, "stopped", "listen", NoTopic)
    /\ SocketUnchanged

\* join_room -> subscribe(symbol, interval, sid), up to its first await (or
\* to its end when the topic is active already).  Clients are served once
\* the startup hook has returned.
subscribe ==
    /\ bybit.task["startup"].pc = "done"
    /\ lock_is_free(bybit)
    /\ \E sid \in Sids, symbol \in Symbols, interval \in Intervals :
          /\ bybit.task[sid].pc = "idle"
          /\ LET topic == topic_of(symbol, interval)
                 b1 == stepped(
                           [bybit EXCEPT
                               !.lock = sid,
                               !.clients_per_topic[topic] = @ \cup {sid},
                               !.task[sid] = [pc |-> "idle", op |-> "subscribe",
                                              topic |-> topic, after |-> "send"]],
                           {}, "subscribe", sid, topic)
             IN  bybit' =
                    IF topic \in bybit.active_topics THEN finish_call(b1, sid)
                    ELSE IF ~bybit.is_connected \/ ~bybit.ws
                    THEN [b1 EXCEPT !.task[sid].pc = "connecting"]
                    ELSE continue_subscribe(b1, sid)
    /\ SocketUnchanged

\* leave_room -> unsubscribe(symbol, interval, sid), up to its await of
\* self.ws.send (or to its end when nothing is sent).
unsubscribe ==
    /\ bybit.task["startup"].pc = "done"
    /\ lock_is_free(bybit)
    /\ \E sid \in Sids, symbol \in Symbols, interval \in Intervals :
          /\ bybit.task[sid].pc = "idle"
          /\ LET topic == topic_of(symbol, interval)
                 b1 == stepped(
                           [bybit EXCEPT
                               !.lock = sid,
                               !.clients_per_topic[topic] = @ \ {sid},
                               !.subscribed = @ \ {<< sid, topic >>},
                               !.task[sid] = [pc |-> "idle", op |-> "unsubscribe",
                                              topic |-> topic, after |-> "return"]],
                           {}, "unsubscribe", sid, topic)
             IN  bybit' =
                    IF b1.clients_per_topic[topic] = {}
                       /\ topic \in bybit.active_topics
                    THEN IF bybit.is_connected /\ bybit.ws
                         THEN [b1 EXCEPT !.task[sid].pc = "sending"]
                         ELSE finish_call([b1 EXCEPT !.active_topics = @ \ {topic}],
                                          sid)
                    ELSE finish_call(b1, sid)
    /\ SocketUnchanged

\* self.ws.send returns or raises in subscribe and in unsubscribe.
send_returns ==
    /\ \E sid \in Sids, sent \in BOOLEAN :
          /\ bybit.task[sid].pc = "sending"
          /\ LET op == bybit.task[sid].op
                 topic == bybit.task[sid].topic
             IN  bybit' =
                    IF op = "subscribe"
                    THEN IF sent
                         THEN finish_call(
                                  stepped([bybit EXCEPT !.active_topics = @ \cup {topic}],
                                          {message(op, topic)}, "sent", sid, topic),
                                  sid)
                         ELSE handle_reconnect(
                                  stepped([bybit EXCEPT !.is_connected = FALSE,
                                                        !.task[sid].after = "return"],
                                          {}, "send_failed", sid, topic), sid)
                    ELSE IF sent
                         THEN finish_call(
                                  stepped([bybit EXCEPT !.active_topics = @ \ {topic}],
                                          {message(op, topic)}, "sent", sid, topic),
                                  sid)
                         ELSE finish_call(
                                  stepped(bybit, {}, "send_failed", sid, topic), sid)
    /\ SocketUnchanged

NextSocket ==
    \/ start_bybit_ws
    \/ connect_returns
    \/ listen_raises
    \/ listen_breaks
    \/ subscribe
    \/ unsubscribe
    \/ send_returns

SpecSocket == InitSocket /\ [][NextSocket]_vars

\* ==================================================== undelivered drawings
\* Largest number of emit / update / delete calls in a run.
MaxSends == 2

\* The ids the callers and the clients name, and what a NULL drawing_id
\* column reads as.
DrawingIds == {"drawing-1", "drawing-2"}
NullId == "NULL"
Actions == {"create", "update", "delete"}

\* str(d.drawing_id)
str(drawing_id) == IF drawing_id = NullId THEN "None" ELSE drawing_id

\* generate_id(type): a new id at each call.
generate_id(n) ==
    IF n = 1 THEN "generated-1" ELSE IF n = 2 THEN "generated-2"
    ELSE IF n = 3 THEN "generated-3" ELSE "generated-4"

\* What the callers pass: the drawing ids of an update or a delete, or the
\* "id" keys of the drawing_data of a create ("generate": a "type" and no
\* id; "none": neither), one drawing or a list of them.
SentIds ==
    {<< drawing_id >> : drawing_id \in DrawingIds}
    \cup {<< "drawing-1", "drawing-2" >>}
CreatedIds == SentIds \cup {<< "generate" >>, << "none" >>}

\* The drawing_id store_undelivered_drawing gives each row of a call.
row_ids(action, ids, n) ==
    IF action # "create" THEN {ids[k] : k \in 1..Len(ids)}
    ELSE {IF ids[k] = "generate" THEN generate_id(n)
          ELSE IF ids[k] = "none" THEN NullId ELSE ids[k] : k \in 1..Len(ids)}

\* db.add(UndeliveredDrawing(symbol=..., drawing_id=..., drawing_data=...,
\* action=...)); db.commit(): client_sid is not set, and the column is
\* declared nullable=False.
insert_allowed(table) == table # "client_sid NOT NULL"

\* store_undelivered_drawing: the rows added by call n, or the exception.
store_undelivered_drawing(s, action, ids, n) ==
    IF insert_allowed(s.table)
    THEN [s EXCEPT !.rows = @ \cup {[send |-> n, drawing_id |-> drawing_id,
                                     action |-> action] :
                                        drawing_id \in row_ids(action, ids, n)}]
    ELSE s

\* remove_delivered_drawing: DELETE ... WHERE drawing_id IN (drawing_ids)
remove_delivered_drawing(rows, drawing_ids) ==
    {row \in rows : row.drawing_id \notin drawing_ids}

NoEvent == [kind |-> "none", action |-> "none", ids |-> {}, success |-> FALSE,
            send |-> 0, returned |-> {}]

\* Base.metadata.create_all creates the table as the model declares it,
\* unless drawings.db holds a table of that name already, which it leaves as
\* it is.
InitDrawings ==
    /\ params = default_parameters(2, FALSE)
    /\ NothingRuns
    /\ registry = << >>
    /\ bybit = << >>
    /\ store \in [table : {"client_sid NOT NULL", "client_sid NULL"},
                  rows : {{}}, emitted : {{}}, sends : {0}, event : {NoEvent}]

DrawingsUnchanged ==
    /\ UNCHANGED << registry, bybit >>
    /\ NothingRunsUnchanged

\* emit_chart_drawing / update_chart_drawing / delete_chart_drawing: store
\* first, then sio.emit with ack_callback, which keeps the stored rows' ids.
\* When the store raises, nothing is emitted.
send_drawing(s, action, ids) ==
    LET n == s.sends + 1
        stored == store_undelivered_drawing(s, action, ids, n)
        event == [NoEvent EXCEPT !.kind = "send", !.action = action,
                                 !.ids = row_ids(action, ids, n), !.send = n]
    IN  IF insert_allowed(s.table)
        THEN [stored EXCEPT
                 !.sends = n,
                 !.emitted = @ \cup
                     {[send |-> n, action |-> action,
                       drawing_ids |-> {str(drawing_id) :
                           drawing_id \in row_ids(action, ids, n)}]},
                 !.event = event]
        ELSE [stored EXCEPT !.sends = n,
                            !.event = [event EXCEPT !.kind = "IntegrityError"]]

emit_chart_drawing ==
    /\ store.sends < MaxSends
    /\ \E ids \in CreatedIds : store' = send_drawing(store, "create", ids)
    /\ DrawingsUnchanged

update_chart_drawing ==
    /\ store.sends < MaxSends
    /\ \E ids \in SentIds : store' = send_drawing(store, "update", ids)
    /\ DrawingsUnchanged

delete_chart_drawing ==
    /\ store.sends < MaxSends
    /\ \E drawing_id \in DrawingIds :
          store' = send_drawing(store, "delete", << drawing_id >>)
    /\ DrawingsUnchanged

\* ack_callback(client_sid, *args) of an emitted message.
ack_callback ==
    /\ \E emitted \in store.emitted, success \in BOOLEAN :
          store' = [store EXCEPT
                       !.rows = IF success
                                THEN remove_delivered_drawing(@, emitted.drawing_ids)
                                ELSE @,
                       !.event = [NoEvent EXCEPT
                                     !.kind = "ack", !.action = emitted.action,
                                     !.ids = emitted.drawing_ids,
                                     !.success = success,
                                     !.send = emitted.send]]
    /\ DrawingsUnchanged

\* The body of drawing_ack, drawing_update_ack and drawing_delete_ack:
\* if data.get("success") and data.get("drawingIds"): remove them.
acknowledge(s, action, success, drawingIds) ==
    [s EXCEPT !.rows = IF success /\ drawingIds # {}
                       THEN remove_delivered_drawing(@, drawingIds)
                       ELSE @,
              !.event = [NoEvent EXCEPT
                            !.kind = "ack", !.action = action,
                            !.ids = drawingIds,
                            !.success = success /\ drawingIds # {}]]

drawing_ack ==
    /\ \E success \in BOOLEAN, drawingIds \in SUBSET DrawingIds :
          store' = acknowledge(store, "create", success, drawingIds)
    /\ DrawingsUnchanged

drawing_update_ack ==
    /\ \E success \in BOOLEAN, drawingIds \in SUBSET DrawingIds :
          store' = acknowledge(store, "update", success, drawingIds)
    /\ DrawingsUnchanged

drawing_delete_ack ==
    /\ \E success \in BOOLEAN, drawingIds \in SUBSET DrawingIds :
          store' = acknowledge(store, "delete", success, drawingIds)
    /\ DrawingsUnchanged

\* GET /undelivered: every row is returned and deleted.
get_undelivered_drawings ==
    /\ store' = [store EXCEPT !.rows = {},
                              !.event = [NoEvent EXCEPT !.kind = "fetch",
                                                        !.returned = store.rows]]
    /\ DrawingsUnchanged

NextDrawings ==
    \/ emit_chart_drawing
    \/ update_chart_drawing
    \/ delete_chart_drawing
    \/ ack_callback
    \/ drawing_ack
    \/ drawing_update_ack
    \/ drawing_delete_ack
    \/ get_undelivered_drawings

SpecDrawings == InitDrawings /\ [][NextDrawings]_vars

\* ================================================================= claims
n_bars == DataLen(data)
High(i) == data[i].High
Low(i) == data[i].Low
Close(i) == data[i].Close
SwingsDone == pc \in {"swings", "fvgs", "detected"}
Window(i) == (i - params.swing_length)..(i + params.swing_length)
InsideForSwing(i) == params.swing_length <= i /\ i <= n_bars - params.swing_length - 1

\* C5 as stated: index i is marked as a swing high iff it has swing_length
\* bars on both sides and high[i] is strictly greater than every other high of
\* the window [i-L, i+L]; swing lows mirror it.  (Refuted: a high equal to
\* high[i] two or more bars away does not prevent the mark.)
C5_StrictWindowMaximum ==
    SwingsDone =>
        \A i \in 0..n_bars-1 :
            /\ (swing_highs[i] # NaN) <=>
                   (InsideForSwing(i) /\ \A k \in Window(i) : k # i => High(k) < High(i))
            /\ (swing_lows[i] # NaN) <=>
                   (InsideForSwing(i) /\ \A k \in Window(i) : k # i => Low(k) > Low(i))

\* C5 (amended): index i is marked as a swing high iff L <= i <= n-L-1, no
\* high of the window [i-L, i+L] is greater than high[i], and high[i] is
\* strictly greater than high[i-1] and high[i+1]; the marked value is high[i];
\* no index in the first L or last L bars is marked.  Swing lows mirror it.
C5_SwingPivots ==
    SwingsDone =>
        \A i \in 0..n_bars-1 :
            /\ (swing_highs[i] # NaN) <=>
                   /\ InsideForSwing(i)
                   /\ \A k \in Window(i) : High(k) <= High(i)
                   /\ High(i-1) < High(i) /\ High(i+1) < High(i)
            /\ swing_highs[i] # NaN => swing_highs[i] = High(i)
            /\ (swing_lows[i] # NaN) <=>
                   /\ InsideForSwing(i)
                   /\ \A k \in Window(i) : Low(k) >= Low(i)
                   /\ Low(i-1) > Low(i) /\ Low(i+1) > Low(i)
            /\ swing_lows[i] # NaN => swing_lows[i] = Low(i)

\* A swing high is marked although an equal high lies in its window.
C5_Witness ==
    /\ SwingsDone
    /\ \E i \in 0..n_bars-1 :
          swing_highs[i] # NaN /\ \E k \in Window(i) : k # i /\ High(k) = High(i)

FvgsDone == pc \in {"fvgs", "detected"}
FvgIdx == 1..Len(fvgs)
FvgAt(i, type) == {k \in FvgIdx : fvgs[k].index = i /\ fvgs[k].type = type}
MinSizeMet(gap, base) ==
    gap * params.fvg_min_size.den >= params.fvg_min_size.num * base

\* C6: for every index i >= 2, calculate_fvgs emits a bullish gap at i iff
\* high[i-2] < low[i] and (low[i]-high[i-2])/high[i-2] >= min_size, with
\* bottom = high[i-2] and top = low[i]; a bearish gap at i iff
\* low[i-2] > high[i] and (low[i-2]-high[i])/high[i] >= min_size, with
\* top = low[i-2] and bottom = high[i]; nothing else is emitted (so a 3-bar
\* series with a gap of size >= min_size yields exactly that gap).
C6_FvgDetection ==
    FvgsDone =>
        /\ \A k \in FvgIdx : fvgs[k].index \in 2..n_bars-1
        /\ \A i \in 2..n_bars-1 :
              /\ (FvgAt(i, "bullish_fvg") # {}) <=>
                     (High(i-2) < Low(i) /\ MinSizeMet(Low(i) - High(i-2), High(i-2)))
              /\ \A k \in FvgAt(i, "bullish_fvg") :
                     fvgs[k].bottom = High(i-2) /\ fvgs[k].top = Low(i)
              /\ (FvgAt(i, "bearish_fvg") # {}) <=>
                     (Low(i-2) > High(i) /\ MinSizeMet(Low(i-2) - High(i), High(i)))
              /\ \A k \in FvgAt(i, "bearish_fvg") :
                     fvgs[k].top = Low(i-2) /\ fvgs[k].bottom = High(i)
              /\ Cardinality({k \in FvgIdx : fvgs[k].index = i}) <= 1

\* A 3-bar series whose gap is exactly min_size is detected with its bounds.
C6_Witness ==
    /\ FvgsDone
    /\ n_bars = 3
    /\ Len(fvgs) = 1
    /\ fvgs[1].type = "bullish_fvg"
    /\ fvgs[1].bottom = High(0) /\ fvgs[1].top = Low(2)
    /\ (Low(2) - High(0)) * params.fvg_min_size.den = params.fvg_min_size.num * High(0)

ObsDone == pc = "detected"
ObIdx == 1..Len(order_blocks)
HighPivots == swing_high_indices(swing_highs, swing_lows, n_bars)
LowPivots == swing_low_indices(swing_highs, swing_lows, n_bars)
ObsOf(p, type) == {k \in ObIdx : order_blocks[k].pivot = p /\ order_blocks[k].type = type}
\* The bars at which pivot p is the most recent pivot of its kind.
WhileLast(p, pivots) ==
    {j \in (p+1)..(n_bars-1) : \A q \in pivots : q > p => j <= q}

\* C7 as stated: every swing high p whose price is exceeded by a later close
\* emits a bullish block at the first such bar, whichever pivots lie between;
\* every swing low undercut by a later close emits a bearish block.
\* (Refuted: only the most recent pivot before a bar is examined.)
C7_EveryPivotEmits ==
    ObsDone =>
        /\ \A p \in {i \in 0..n_bars-1 : swing_highs[i] # NaN} :
              LET J == {j \in (p+1)..(n_bars-1) : Close(j) > High(p)}
              IN  J # {} => \E k \in ObsOf(p, "bullish_ob") :
                                order_blocks[k].break_idx = Min(J)
        /\ \A p \in {i \in 0..n_bars-1 : swing_lows[i] # NaN} :
              LET J == {j \in (p+1)..(n_bars-1) : Close(j) < Low(p)}
              IN  J # {} => ObsOf(p, "bearish_ob") # {}

\* C7 (amended): a swing-high pivot p is crossed, and emits its bullish block,
\* at the first bar j > p with close[j] > high[p] among the bars at which p
\* is still the most recent swing-high pivot (j not after the next swing-high
\* pivot); if there is no such bar p emits nothing.  Swing-low pivots (bars
\* marked swing low and not swing high) mirror it with close[j] < low[p].
C7_LastPivotEmits ==
    ObsDone =>
        /\ \A p \in HighPivots :
              LET J == {j \in WhileLast(p, HighPivots) : Close(j) > High(p)}
              IN  IF J = {} THEN ObsOf(p, "bullish_ob") = {}
                  ELSE \E k \in ObsOf(p, "bullish_ob") : order_blocks[k].break_idx = Min(J)
        /\ \A p \in LowPivots :
              LET J == {j \in WhileLast(p, LowPivots) : Close(j) < Low(p)}
              IN  IF J = {} THEN ObsOf(p, "bearish_ob") = {}
                  ELSE \E k \in ObsOf(p, "bearish_ob") : order_blocks[k].break_idx = Min(J)
        /\ \A k \in ObIdx :
              order_blocks[k].pivot \in
                  (IF order_blocks[k].type = "bullish_ob" THEN HighPivots ELSE LowPivots)

\* An older swing high is exceeded by a close only after a newer swing high
\* took its place: the newer one emits, the older one does not.
C7_Witness ==
    /\ ObsDone
    /\ \E p \in HighPivots, q \in HighPivots :
          /\ p < q
          /\ \E j \in (q+1)..(n_bars-1) : Close(j) > High(p)
          /\ \A j \in (p+1)..q : Close(j) <= High(p)
          /\ ObsOf(p, "bullish_ob") = {}
          /\ ObsOf(q, "bullish_ob") # {}

\* C8: the block emitted for pivot p at break bar j is anchored at the first
\* bar with the lowest low (bullish) / highest high (bearish) strictly between
\* p and j, at bar j-1 when no bar lies between them; its top and bottom are
\* the anchor's high and low.
C8_AnchorCandle ==
    ObsDone =>
        \A k \in ObIdx :
            LET ob == order_blocks[k]
                a  == ob.index
                R  == (ob.pivot + 1)..(ob.break_idx - 1)
            IN  /\ ob.top = High(a) /\ ob.bottom = Low(a) /\ ob.time = DataIndex(a)
                /\ R = {} => a = ob.break_idx - 1
                /\ R # {} => a \in R
                /\ (R # {} /\ ob.type = "bullish_ob") =>
                       \A r \in R : Low(a) <= Low(r) /\ (r < a => Low(r) > Low(a))
                /\ (R # {} /\ ob.type = "bearish_ob") =>
                       \A r \in R : High(a) >= High(r) /\ (r < a => High(r) < High(a))

\* A bullish block whose lowest low occurs twice between pivot and break bar.
C8_Witness ==
    /\ ObsDone
    /\ \E k \in ObIdx :
          /\ order_blocks[k].type = "bullish_ob"
          /\ \E r \in (order_blocks[k].index + 1)..(order_blocks[k].break_idx - 1) :
                Low(r) = order_blocks[k].bottom

\* C9: a pivot emits at most one order block; there are never more bullish
\* blocks than swing highs nor more bearish blocks than swing lows.
C9_OneBlockPerPivot ==
    ObsDone =>
        /\ \A k1, k2 \in ObIdx :
              (/\ order_blocks[k1].pivot = order_blocks[k2].pivot
               /\ order_blocks[k1].type = order_blocks[k2].type) => k1 = k2
        /\ Cardinality({k \in ObIdx : order_blocks[k].type = "bullish_ob"})
              <= Cardinality({i \in 0..n_bars-1 : swing_highs[i] # NaN})
        /\ Cardinality({k \in ObIdx : order_blocks[k].type = "bearish_ob"})
              <= Cardinality({i \in 0..n_bars-1 : swing_lows[i] # NaN})

\* A crossed pivot is exceeded again by a later close while it is still the
\* most recent swing high: only the crossed flag stops a second block.
C9_Witness ==
    /\ ObsDone
    /\ \E k \in ObIdx :
          /\ order_blocks[k].type = "bullish_ob"
          /\ \E j \in WhileLast(order_blocks[k].pivot, HighPivots) :
                j > order_blocks[k].break_idx /\ Close(j) > High(order_blocks[k].pivot)

\* ------------------------------------------------------ the structure run
Running == pc \in {"running", "finished"}
LevelIdx == 1..Len(levels)
ObTypes == {"bullish_ob", "bearish_ob"}
\* The order block a level was made from (one per type and anchor candle).
ObOfLevel(k) ==
    CHOOSE o \in ObIdx : /\ order_blocks[o].type = levels[k].type
                         /\ order_blocks[o].time = levels[k].time
\* The mitigation condition of an order-block level on bar m.
MitigationHolds(level, m) ==
    IF level.type = "bullish_ob"
    THEN (IF params.ob_close_mitigation THEN Min2(data[m].Open, data[m].Close)
          ELSE data[m].Low) < level.bottom
    ELSE (IF params.ob_close_mitigation THEN Max2(data[m].Open, data[m].Close)
          ELSE data[m].High) > level.top

\* C3: an order-block level held by the Level Manager is mitigated (end_time
\* set, mitigated, no longer active) no later than the first bar after its
\* emission on which the mitigation condition holds.
C3_MitigatedAtFirstHit ==
    Running =>
        \A k \in LevelIdx :
            levels[k].type \in ObTypes =>
                LET M == {m \in (added_at[k] + 1)..(current_idx - 1) :
                              MitigationHolds(levels[k], m)}
                IN  M # {} => /\ levels[k].end_time # None
                              /\ levels[k].end_time <= DataIndex(Min(M))
                              /\ levels[k].mitigated

\* C4: an order-block level is added while processing the bar j whose close
\* crossed the pivot price, never while processing an earlier bar.
C4_AddedAtBreakBar ==
    Running =>
        \A k \in LevelIdx :
            levels[k].type \in ObTypes =>
                added_at[k] = order_blocks[ObOfLevel(k)].break_idx

\* C10: a level emitted on bar i is terminated only by a strictly later bar:
\* whenever its end_time is set, it is later than bar i.
C10_TerminatedByLaterBar ==
    Running =>
        \A k \in LevelIdx :
            levels[k].end_time # None => levels[k].end_time > DataIndex(added_at[k])

\* C2: once a level has end_time set, no later bar changes its end_time,
\* break_direction, filled / fill_time or mitigated.
C2_TerminalLevelsFrozen ==
    [][\A k \in LevelIdx :
          levels[k].end_time # None =>
              /\ k <= Len(levels')
              /\ levels'[k].end_time = levels[k].end_time
              /\ levels'[k].break_direction = levels[k].break_direction
              /\ levels'[k].filled = levels[k].filled
              /\ levels'[k].fill_time = levels[k].fill_time
              /\ levels'[k].mitigated = levels[k].mitigated]_vars

\* A broken swing high, or a filled gap, has seen a later bar that meets its
\* break / fill condition again.
C2_Witness ==
    /\ Running
    /\ \E k \in LevelIdx :
          /\ levels[k].end_time # None
          /\ \E m \in 0..(current_idx - 1) :
                /\ DataIndex(m) > levels[k].end_time
                /\ \/ levels[k].type = "swing_high" /\ data[m].High > levels[k].price
                   \/ levels[k].type = "bullish_fvg" /\ data[m].Low <= levels[k].bottom

\* ------------------------------------------------------- the trading runs
\* The step is a call of next() that queues an entry order.
EntryIssued ==
    /\ pc = "strategy"
    /\ \E k \in 1..Len(orders') : orders'[k].kind = "entry"
\* An entry signal of the strategy is present on the current bar.
EntrySignal ==
    IF params.strategy = "ma_cross"
    THEN /\ Len(recent) = window_size(params)
         /\ fast_over_slow(recent, params) \/ slow_over_fast(recent, params)
    ELSE /\ current_idx >= MinBarsForSignals
         /\ macd_cross_up(macd_rel) \/ macd_cross_down(macd_rel)

\* C1: MA Cross and RSI+MACD issue an entry order only on a bar where no
\* position is open, and at every bar of the run at most one position is open.
C1_EntryOnlyWhenFlat ==
    /\ [](Len(trades) <= 1)
    /\ [][EntryIssued => trades = << >>]_vars

\* next() of MA Cross has just run on a bar where the means cross while a
\* position is open, and has queued nothing.
C1_Witness ==
    /\ pc = "broker"
    /\ params.strategy = "ma_cross"
    /\ EntrySignal
    /\ Len(trades) = 1
    /\ orders = << >>

\* The status a level records: active until broken, filled or mitigated.
StatusActive(level) ==
    /\ level.break_direction = "None"
    /\ ~level.filled
    /\ ~level.mitigated
\* What identifies a level from its addition on.
LevelIdentity(level) ==
    << level.time, level.type, level.price, level.top, level.bottom >>

\* C11: get_all_levels() returns every level ever added in insertion order
\* (no bar removes or reorders a level), and get_active_levels() returns
\* exactly the levels that are not broken, not filled and not mitigated.
C11_AllAndActiveLevels ==
    /\ [](Running =>
            /\ get_all_levels(levels) = levels
            /\ Len(levels) = Len(added_at)
            /\ get_active_levels(levels) = SelectSeq(levels, StatusActive))
    /\ [][/\ Len(get_all_levels(levels')) >= Len(get_all_levels(levels))
          /\ \A k \in LevelIdx :
                LevelIdentity(get_all_levels(levels')[k])
                    = LevelIdentity(get_all_levels(levels)[k])]_vars

\* A run holding, side by side, a broken swing, a filled gap or an order
\* block added mitigated, and a level that is still active.
C11_Witness ==
    /\ Running
    /\ \E a, b, c \in LevelIdx :
          /\ levels[a].break_direction # "None"
          /\ levels[b].filled \/ levels[b].mitigated
          /\ levels[c].end_time = None
    /\ Len(get_active_levels(levels)) < Len(get_all_levels(levels))

FvgTypes == {"bullish_fvg", "bearish_fvg"}
\* The bars processed after levels[k] was added.
BarsAfter(k) == (added_at[k] + 1)..(current_idx - 1)
\* Bar m reaches into the gap span [bottom, top] of a gap level.
ReEnters(level, m) ==
    IF level.type = "bullish_fvg" THEN data[m].Low <= level.top
    ELSE data[m].High >= level.bottom
\* levels[k] is active until the first bar of M, and ended by that bar.
EndsAtFirst(k, M) ==
    IF M = {}
    THEN levels[k].end_time = None
    ELSE levels[k].end_time = DataIndex(Min(M))

\* C12: a gap level is filled at the first bar after its
\* emission whose range re-enters the gap span (bullish: low <= top,
\* bearish: high >= bottom); end_time and fill_time are that bar's time.
C12_FilledOnReEntry ==
    Running =>
        \A k \in LevelIdx :
            levels[k].type \in FvgTypes =>
                LET M == {m \in BarsAfter(k) : ReEnters(levels[k], m)}
                IN  /\ EndsAtFirst(k, M)
                    /\ levels[k].fill_time = levels[k].end_time
                    /\ levels[k].filled = (M # {})

LastBar == recent[Len(recent)]
PriceDen == params.stop_loss_pct.den
ClosedRows == IF pc \in {"strategy", "broker"} THEN 1..Len(trade_log) ELSE {}
\* The range of the last bar reaches both thresholds of a closed trade.
BothReached(row) ==
    sl_hit(row, LastBar, PriceDen) /\ tp_hit(row, LastBar, PriceDen)
\* The last bar opened beyond the stop of a closed trade.
OpenedPastStop(row) ==
    IF row.is_long THEN LastBar.Open * PriceDen < row.sl
    ELSE LastBar.Open * PriceDen > row.sl

ResultRows == IF pc = "created" THEN {} ELSE 1..Len(trade_log)

\* C15: every trade of the result has exit_reason take_profit or stop_loss and
\* its exit_price is the threshold its exit_reason names; no trade closed for
\* another cause is labelled stop_loss.
C15_ExitReasonNamesExitPrice ==
    \A k \in ResultRows :
        LET info == trade_info(trade_log[k], params, build)
        IN  /\ info.exit_reason \in {"take_profit", "stop_loss"}
            /\ info.exit_reason = "take_profit" => info.exit_price = info.take_profit
            /\ info.exit_reason = "stop_loss" =>
                  /\ info.exit_price = info.stop_loss
                  /\ trade_log[k].cause = "sl"

\* The entry signal of the side opposite to the position held is present on
\* the current bar.
OppositeSignal ==
    /\ Len(trades) > 0
    /\ IF params.strategy = "ma_cross"
       THEN /\ Len(recent) = window_size(params)
            /\ IF trades[1].is_long THEN slow_over_fast(recent, params)
                                    ELSE fast_over_slow(recent, params)
       ELSE /\ current_idx >= MinBarsForSignals
            /\ IF trades[1].is_long THEN macd_cross_down(macd_rel)
                                    ELSE macd_cross_up(macd_rel)

\* C16 (signal-reversal exit): a position open on a bar where the opposite
\* entry signal occurs is closed by next() on that bar.
C16_ClosedOnOppositeSignal ==
    [][(pc = "strategy" /\ OppositeSignal) =>
          \/ trades' = << >>
          \/ \E k \in 1..Len(orders') : orders'[k].kind \in {"close", "entry"}]_vars

\* C16: next() called with a position open, the opposite entry signal included,
\* leaves the position and the order queue as they are; a position is closed
\* only by its stop-loss or take-profit order or by the end of the run.
C16_OnlyBracketExits ==
    /\ [][(pc = "strategy" /\ Len(trades) > 0) =>
             (trades' = trades /\ orders' = orders)]_vars
    /\ [](\A k \in ResultRows : trade_log[k].cause \in {"sl", "tp", "end"})

\* next() of MA Cross has just run on a bar where the fast mean crossed below
\* the slow one with a long position open: the position is still open and
\* nothing is queued.
C16_Witness ==
    /\ pc = "broker"
    /\ params.strategy = "ma_cross"
    /\ OppositeSignal
    /\ trades[1].is_long
    /\ orders = << >>

\* The fast mean is above the slow mean on the current bar and on the one
\* before it.
FastAboveSlow ==
    /\ Len(recent) = window_size(params)
    /\ rolling_mean(recent, params.fast_ma, params, 0)
          > rolling_mean(recent, params.slow_ma, params, 0)
    /\ rolling_mean(recent, params.fast_ma, params, 1)
          > rolling_mean(recent, params.slow_ma, params, 1)
LongEntryQueued(od) ==
    \E k \in 1..Len(od) : od[k].kind = "entry" /\ od[k].is_long

\* C17 (scenario as written): on the rising 200-bar series MA Cross 5 / 20
\* makes a long entry at the first bar where the fast mean exceeds the slow one.
C17_LongEntryAtFirstBar ==
    [][(pc = "strategy" /\ current_idx = ma_cross_first_bar(params)
           /\ FastAboveSlow) => LongEntryQueued(orders')]_vars

\* C17: on the rising 200-bar series MA Cross 5 / 20 makes no entry at all,
\* long or short: at every bar next() sees, the fast mean is above the slow
\* one and was above it on the bar before, so neither mean crosses the other.
C17_NoEntryOnRisingSeries ==
    /\ orders = << >>
    /\ trades = << >>
    /\ trade_log = << >>
    /\ pc = "strategy" => FastAboveSlow

\* The run over the 200 bars has ended, next() having seen bars 20 to 199.
C17_Witness ==
    /\ pc = "finished"
    /\ DataLen(data) = ScenarioBars
    /\ current_idx = ScenarioBars - 1
    /\ params.fast_ma = ScenarioFast
    /\ params.slow_ma = ScenarioSlow

ShortEntryQueued(od) ==
    \E k \in 1..Len(od) : od[k].kind = "entry" /\ ~od[k].is_long

\* C18: on a bar with no open position (and enough bars for signals), RSI+MACD
\* opens a long when the MACD line crosses above its signal line or a bullish
\* divergence is present at the current RSI pivot low, and a short on the
\* mirror conditions; a divergence without a MACD cross is enough.
C18_EntryOnCrossOrDivergence ==
    [][(/\ pc = "strategy"
        /\ params.strategy = "rsi_macd"
        /\ current_idx >= MinBarsForSignals
        /\ trades = << >>) =>
          LET long_signal ==
                  macd_cross_up(macd_rel) \/ rsi_pivots.bull = "diverging"
              short_signal ==
                  macd_cross_down(macd_rel) \/ rsi_pivots.bear = "diverging"
          IN  /\ long_signal => LongEntryQueued(orders')
              /\ (~long_signal /\ short_signal) => ShortEntryQueued(orders')]_vars

\* The entry order placed from validated parameters, and its entry price in
\* the unit of the order's thresholds.
EntryPlaced == pc = "entered"
PlacedOrder == orders[Len(orders)]
PlacedPrice == recent[1].Close * params.stop_loss_pct.den

\* C19: for an entry made with parameters validate_parameters accepts and a
\* positive entry price, stop and target follow the bracket formulas and are
\* positive prices on opposite sides of the entry: long 0 < stop < entry <
\* target, short 0 < target < entry < stop.
C19_BracketAroundEntry ==
    EntryPlaced =>
        LET pct == params.stop_loss_pct
            o == PlacedOrder
        IN  /\ recent[1].Close > 0
            /\ IF o.is_long
               THEN /\ o.sl = recent[1].Close * (pct.den - pct.num)
                    /\ o.tp = recent[1].Close * (pct.den + pct.num * params.risk_reward)
                    /\ 0 < o.sl /\ o.sl < PlacedPrice /\ PlacedPrice < o.tp
               ELSE /\ o.sl = recent[1].Close * (pct.den + pct.num)
                    /\ o.tp = recent[1].Close * (pct.den - pct.num * params.risk_reward)
                    /\ 0 < o.tp /\ o.tp < PlacedPrice /\ PlacedPrice < o.sl

\* C20: validate_parameters fails closed: a mapping is accepted only if it
\* holds every required key and every value is inside the range its variant's
\* get_parameter_schema gives (for MA Cross, with fast_ma below slow_ma).
C20_ValidateFailsClosed ==
    pc \in {"validated", "entered"} =>
        /\ schema_accepts(params)
        /\ params.strategy = "ma_cross" => params.fast_ma < params.slow_ma

\* What a call has done besides validating.
RunnerIdle(r) ==
    /\ ~r.loaded
    /\ ~r.class_created
    /\ r.runs = 0
    /\ r.stepped = 0
    /\ ~r.results
    /\ r.save_attempts = 0
    /\ ~r.stored

\* C21: run_flexible_backtest validates the merged parameters before anything
\* else of the run; when validate_parameters returns False it returns None
\* without loading data, creating the strategy class or stepping a bar, and
\* nothing is stored.
C21_RejectedBeforeAnything ==
    /\ runner.stage = "validate" => RunnerIdle(runner)
    /\ (runner.stage # "validate" /\ ~strategy_validate_parameters(params)) =>
          /\ runner.stage = "done"
          /\ runner.returned = "None"
          /\ RunnerIdle(runner)

\* A call with fast_ma >= slow_ma has returned.
C21_Witness ==
    /\ runner.stage = "done"
    /\ params.fast_ma >= params.slow_ma
    /\ runner.returned = "None"

\* The timestamps of a frame's rows, and the last row of the file with
\* timestamp t.
FrameTimesOf(rows) == {rows[i].time : i \in 1..Len(rows)}
LastRowAt(rows, t) ==
    rows[CHOOSE i \in 1..Len(rows) :
            /\ rows[i].time = t
            /\ \A j \in (i + 1)..Len(rows) : rows[j].time # t]

\* C22: after data preparation the rows have strictly increasing timestamps;
\* of the rows of one timestamp exactly one, the last, is kept, and no row with
\* a unique timestamp is dropped.
C22_SortedOnePerTimestamp ==
    pc = "prepared" =>
        /\ \A i \in 1..(Len(prepared_data) - 1) :
              prepared_data[i].time < prepared_data[i + 1].time
        /\ FrameTimesOf(prepared_data) = FrameTimesOf(data)
        /\ \A i \in 1..Len(prepared_data) :
              prepared_data[i] = LastRowAt(data, prepared_data[i].time)

\* The largest lookback parameter of the strategy the run uses.
LargestLookback(parameters) == Max2(parameters.fast_ma, parameters.slow_ma)

\* C23: a run over a series with fewer bars than the strategy's largest
\* lookback fails before the simulation starts; it does not complete and
\* return a result.
C23_ShortSeriesRejected ==
    (runner.loaded /\ runner.bars < LargestLookback(params)) =>
        /\ runner.runs = 0
        /\ runner.stepped = 0
        /\ runner.returned # "results"

\* C28: if saving the result raises, the call still returns the computed
\* result, without an id; the simulation ran once and the save was attempted
\* once.
C28_SaveFailureNotFatal ==
    /\ runner.runs <= 1
    /\ runner.save_attempts <= 1
    /\ (runner.stage = "done" /\ runner.save_raised) =>
          /\ runner.returned = "results"
          /\ runner.results
          /\ runner.id = None
          /\ runner.runs = 1
          /\ runner.stepped = runner.bars
          /\ runner.save_attempts = 1

\* A call whose save raised has returned.
C28_Witness ==
    /\ runner.stage = "done"
    /\ runner.save_to_db
    /\ runner.save_raised
    /\ runner.returned = "results"

\* C29: an exception at a bar during the stepping ends the call with None;
\* no result is built from the bars stepped so far, and nothing is stored.
C29_AllOrNothing ==
    runner.step_raised =>
        /\ runner.stage = "done"
        /\ runner.returned = "None"
        /\ ~runner.results
        /\ runner.save_attempts = 0
        /\ ~runner.stored

\* A call in which a bar raised after earlier bars were stepped.
C29_Witness ==
    /\ runner.step_raised
    /\ runner.stepped > 0
    /\ runner.stepped < runner.bars
    /\ runner.returned = "None"

\* C24 as stated: when a run closed no trade, the result reports the win
\* rate, the Sharpe ratio, the profit factor and the value at risk as null,
\* neither as 0 nor as NaN, in the results dict and as read back from the
\* repository.
NoTradesReported == pc \in {"computed", "serialized"} /\ results.total_trades = 0
C24_NoTradesReportNull ==
    NoTradesReported =>
        /\ results.win_rate = Null
        /\ results.sharpe_ratio = Null
        /\ results.profit_factor = Null
        /\ results.value_at_risk = Null

\* C25: for a non-empty PnL list of length n, value_at_risk is the absolute
\* value of the element of rank floor(n * 0.05) (counted from 0) in ascending
\* order: at most floor(n * 0.05) trades lie below it and more than that many
\* do not lie above it; for [-50, -20, -10, 5, 30] it is 50.
Below(pnl, x) == Cardinality({ i \in DOMAIN pnl : pnl[i] < x })
UpTo(pnl, x) == Cardinality({ i \in DOMAIN pnl : pnl[i] <= x })
HasRank(pnl, x, k) == Below(pnl, x) <= k /\ k < UpTo(pnl, x)
C25_ValueAtRiskNearestRank ==
    (pc = "computed" /\ pnl_list # << >>) =>
        /\ results.value_at_risk.kind = "number"
        /\ \E i \in DOMAIN pnl_list :
              /\ HasRank(pnl_list, pnl_list[i], Len(pnl_list) \div 20)
              /\ results.value_at_risk.value = Abs(pnl_list[i])
        /\ pnl_list = << -50, -20, -10, 5, 30 >> =>
              results.value_at_risk.value = 50
C25_Witness ==
    /\ pc = "computed"
    /\ Len(pnl_list) >= 2 * LongLen
    /\ results.value_at_risk.value # Abs(SeqMin(pnl_list))
    /\ results.value_at_risk.value # Abs(pnl_list[1])

\* C27 as stated: the annotation list a finished run reports (the list
\* _detected_levels refers to) holds exactly the levels detected in that
\* run, each once, whatever runs came before it, a second run of the same
\* generated class included.
C27_LevelsOwnedByRun ==
    pc = "finished" => collected_levels = levels

\* C30: the structure-only strategy places no order on any bar, so no
\* position is ever open and no trade is ever closed; the levels are all the
\* run produces.
C30_StructureNeverTrades ==
    /\ orders = << >>
    /\ trades = << >>
    /\ trade_log = << >>
C30_Witness ==
    /\ pc = "finished"
    /\ \E k \in 1..Len(levels) : levels[k].type = "swing_low"
    /\ \E k \in 1..Len(levels) : levels[k].end_time # None
    /\ orders = << >>
    /\ trades = << >>

Negated(series, n) == [i \in 0..n-1 |-> 0 - series[i]]
Marked(pivots, n) == { i \in 0..n-1 : pivots[i] # NaN }
C31_SwingSymmetry ==
    SwingsDone =>
        /\ Marked(calculate_swing_lows(Negated(HighOf(data, n_bars), n_bars), n_bars,
                                       params.swing_length, params.min_swing_size),
                  n_bars)
             = Marked(swing_highs, n_bars)
        /\ Marked(calculate_swing_highs(Negated(LowOf(data, n_bars), n_bars), n_bars,
                                        params.swing_length, params.min_swing_size),
                  n_bars)
             = Marked(swing_lows, n_bars)
C31_Witness ==
    /\ pc = "swings"
    /\ Marked(swing_highs, n_bars) # {}
    /\ Marked(swing_lows, n_bars) # {}
    /\ Marked(swing_highs, n_bars) # Marked(swing_lows, n_bars)

\* C34: min_swing_size is accepted and never enforced.  Whatever value the
\* detector is given, calculate_swing_highs and calculate_swing_lows return
\* the pivots they return for any other value.
MinSwingSizes ==
    {[num |-> 1, den |-> 500], [num |-> 1, den |-> 100], [num |-> 1, den |-> 3],
     [num |-> 1, den |-> 1]}
C34_MinSwingSizeIgnored ==
    SwingsDone =>
        \A m \in MinSwingSizes :
            /\ calculate_swing_highs(HighOf(data, n_bars), n_bars,
                                     params.swing_length, m) = swing_highs
            /\ calculate_swing_lows(LowOf(data, n_bars), n_bars,
                                    params.swing_length, m) = swing_lows
C34_Witness ==
    /\ pc = "swings"
    /\ params.min_swing_size \in MinSwingSizes
    /\ \E i \in 0..n_bars-1 :
          swing_highs[i] # NaN /\ (swing_highs[i] - High(i - 1)) * 3 < swing_highs[i]
    /\ \E i \in 0..n_bars-1 : swing_lows[i] # NaN

\* C32: a gap level is added while bar i, the bar the gap was detected at,
\* is processed, and its start time is the timestamp of candle i-2, the
\* first candle of the pattern, not the timestamp of candle i.
GapAt(k, i) ==
    \E f \in 1..Len(fvgs) :
        /\ fvgs[f].index = i
        /\ fvgs[f].type = levels[k].type
        /\ fvgs[f].top = levels[k].top
        /\ fvgs[f].bottom = levels[k].bottom
C32_GapStartsAtFirstCandle ==
    Running =>
        \A k \in LevelIdx :
            levels[k].type \in FvgTypes =>
                /\ GapAt(k, added_at[k])
                /\ levels[k].time = DataIndex(added_at[k] - 2)
                /\ levels[k].time # DataIndex(added_at[k])
C32_Witness ==
    /\ pc = "finished"
    /\ \E k \in LevelIdx : levels[k].type = "bullish_fvg"
    /\ \E k \in LevelIdx : levels[k].type = "bearish_fvg"

\* C33 as stated: every swing-high index is a high pivot and every swing-low
\* index a low pivot of the order-block detection, also a bar that is both;
\* so a close below the low of the most recent swing low emits a bearish
\* block for it, and a close above the high of the most recent swing high a
\* bullish one.
SwingLowBars == Marked(swing_lows, n_bars)
SwingHighBars == Marked(swing_highs, n_bars)
C33_BothKindsOfPivot ==
    ObsDone =>
        /\ HighPivots = SwingHighBars
        /\ LowPivots = SwingLowBars
        /\ \A p \in SwingLowBars :
              (\E j \in (p+1)..(n_bars-1) :
                   /\ Close(j) < Low(p)
                   /\ \A q \in SwingLowBars : ~(p < q /\ q < j))
                  => ObsOf(p, "bearish_ob") # {}
        /\ \A p \in SwingHighBars :
              (\E j \in (p+1)..(n_bars-1) :
                   /\ Close(j) > High(p)
                   /\ \A q \in SwingHighBars : ~(p < q /\ q < j))
                  => ObsOf(p, "bullish_ob") # {}

\* C36: at every point of a structure-only run, every level held by the Level
\* Manager has end_time unset or not earlier than the level's own start time.
C36_EndsNotBeforeStart ==
    Running =>
        \A k \in LevelIdx :
            levels[k].end_time # None => levels[k].end_time >= levels[k].time

\* The same for swing and gap levels only.
C36_SwingsAndGapsEndAfterStart ==
    Running =>
        \A k \in LevelIdx :
            (levels[k].type \notin ObTypes /\ levels[k].end_time # None)
                => levels[k].end_time >= levels[k].time

\* C35: once the strategies package has been imported, the registry lists
\* 'simple_ma_cross', and every registered strategy accepts its own defaults:
\* validate_parameters(get_default_parameters()) is True.
C35_RegistryListsAndAccepts ==
    registry.status # "not_imported" =>
        /\ "simple_ma_cross" \in registry.listed
        /\ \A name \in registry.listed :
              class_validate_parameters(
                  STRATEGY_REGISTRY[name],
                  class_default_parameters(STRATEGY_REGISTRY[name]))

\* Each of the three classes accepts its own defaults whenever it is loaded.
C35_DefaultsAccepted ==
    \A name \in DOMAIN STRATEGY_REGISTRY :
        class_validate_parameters(
            STRATEGY_REGISTRY[name],
            class_default_parameters(STRATEGY_REGISTRY[name]))

\* C37: under any interleaving of subscribe and unsubscribe calls, a step
\* sends the upstream unsubscribe for a topic, or drops the topic from
\* active_topics, only for an unsubscribe call and only when no client sid is
\* registered for the topic any more.
C37_UnsubscribeOnlyAfterLastClient ==
    [][\A topic \in Topics :
          (\/ message("unsubscribe", topic) \in bybit'.sent
           \/ (topic \in bybit.active_topics /\ topic \notin bybit'.active_topics))
          => /\ bybit'.clients_per_topic[topic] = {}
             /\ \E sid \in Sids :
                   \/ (bybit.task[sid].op = "unsubscribe"
                       /\ bybit.task[sid].topic = topic)
                   \/ bybit'.event = [kind |-> "unsubscribe", task |-> sid,
                                      topic |-> topic]]_vars

\* One of two clients of an active topic has left it: the topic stays active
\* and nothing was sent; and the last one has left: the unsubscribe was sent.
C37_Witness ==
    \E topic \in Topics :
        /\ bybit.event.kind = "unsubscribe"
        /\ bybit.event.topic = topic
        /\ bybit.clients_per_topic[topic] # {}
        /\ topic \in bybit.active_topics
        /\ bybit.sent = {}

\* C38: once subscribe(symbol, interval, sid) has returned and until that sid
\* unsubscribes, the topic is in active_topics, also when the upstream send
\* failed or the connection was down at the moment of the call.
C38_SubscribedTopicIsActive ==
    \A call \in bybit.subscribed : call[2] \in bybit.active_topics

\* C39: reconnect_attempts never exceeds max_reconnect_attempts; every
\* further attempt of the connect/handle_reconnect cycle counts one up and
\* is made only below the limit, so the cycle stops after at most five; and
\* only a successful connect sets reconnect_attempts back to 0.
C39_ReconnectionTerminates ==
    /\ [](bybit.reconnect_attempts <= max_reconnect_attempts)
    /\ [][/\ \A x \in Tasks :
                (bybit'.task[x].pc = "reconnecting"
                 /\ (bybit.task[x].pc # "reconnecting"
                     \/ bybit'.event = [kind |-> "failed", task |-> x,
                                        topic |-> NoTopic]))
                => /\ bybit.reconnect_attempts < max_reconnect_attempts
                   /\ bybit'.reconnect_attempts = bybit.reconnect_attempts + 1
          /\ bybit'.reconnect_attempts < bybit.reconnect_attempts
                => /\ bybit'.reconnect_attempts = 0
                   /\ bybit'.event.kind = "connected"
                   /\ bybit'.is_connected]_vars

\* The fifth further attempt has failed and the cycle has returned.
C39_Witness ==
    /\ bybit.reconnect_attempts = max_reconnect_attempts
    /\ bybit.event.kind = "failed"
    /\ bybit.task[bybit.event.task].pc # "reconnecting"

\* The step was a successful acknowledgement of the row's own message: of
\* its action and naming its drawing id.
Acknowledged(row, event) ==
    /\ event.kind = "ack"
    /\ event.success
    /\ str(row.drawing_id) \in event.ids
    /\ row.action = event.action

\* The rows that leave the store in a step were acknowledged in it or
\* returned by the fetch it made.
LeaveOnlyDelivered ==
    \A row \in store.rows \ store'.rows :
        \/ store'.event.kind = "fetch" /\ row \in store'.event.returned
        \/ Acknowledged(row, store'.event)

\* C40: a drawing sent with emit_chart_drawing, update_chart_drawing or
\* delete_chart_drawing is recorded in the undelivered store and emitted; its
\* record leaves the store only after a client acknowledged it with success
\* or after a fetch returned it; an unsuccessful acknowledgement leaves the
\* store as it is.
C40_RecordedUntilDelivered ==
    [][/\ store'.event.kind \in {"send", "IntegrityError"}
            => /\ \A drawing_id \in store'.event.ids :
                      [send |-> store'.event.send, drawing_id |-> drawing_id,
                       action |-> store'.event.action] \in store'.rows
               /\ \E emitted \in store'.emitted : emitted.send = store'.event.send
       /\ LeaveOnlyDelivered
       /\ (store'.event.kind = "ack" /\ ~store'.event.success)
            => store'.rows = store.rows]_vars

\* The second and third part alone, which a table that takes the rows can
\* still break.
C40_LeaveOnlyWhenAcknowledged ==
    [][/\ LeaveOnlyDelivered
       /\ (store'.event.kind = "ack" /\ ~store'.event.success)
            => store'.rows = store.rows]_vars

\* What does hold: nothing is emitted unless its rows are stored, and a row
\* leaves only by a fetch or by a successful acknowledgement that names its
\* drawing id, for whatever action.
C40_LeaveOnlyByAckOfIdOrFetch ==
    [][/\ store'.event.kind = "send"
            => \A drawing_id \in store'.event.ids :
                   [send |-> store'.event.send, drawing_id |-> drawing_id,
                    action |-> store'.event.action] \in store'.rows
       /\ store'.emitted # store.emitted => store'.event.kind = "send"
       /\ \A row \in store.rows \ store'.rows :
             \/ store'.event.kind = "fetch" /\ row \in store'.event.returned
             \/ /\ store'.event.kind = "ack"
                /\ store'.event.success
                /\ row.drawing_id \in store'.event.ids
       /\ (store'.event.kind = "ack" /\ ~store'.event.success)
            => store'.rows = store.rows]_vars

====
